---------------------------- MODULE Spec2Model ----------------------------
(***************************************************************************)
(* Stateless chat orchestration and tool dispatch of the todo chatbot      *)
(* backend: the task tools (mcp/server.py), the agent runner               *)
(* (agent/runner.py), the context service (services/context.py) and the    *)
(* chat endpoint (api/routes.py).                                          *)
(*                                                                         *)
(* Two specifications share the definitions below:                         *)
(*   ToolSpec  the five task tools called directly, one call per step;     *)
(*   Spec      chat turns, each broken into the steps between which the     *)
(*             endpoint awaits (context, user message, model call, one     *)
(*             step per tool call, assistant message, timestamp).          *)
(***************************************************************************)
EXTENDS Integers, Sequences, FiniteSets, TLC

(***************************************************************************)
(* Bounds of the model.                                                    *)
(***************************************************************************)
\* Mutating tool calls in one ToolSpec behaviour (each one is a commit).
MaxCommits == 3
\* Tasks ever created in one behaviour (ids are never reused).
MaxTasks == 2
\* Chat requests in one Spec behaviour.
MaxRequests == 2
\* Tool calls in one model reply.
MaxCalls == 2

(***************************************************************************)
(* Program constants.                                                      *)
(***************************************************************************)
MaxTitleLen == 500
MaxDescriptionLen == 5000

(***************************************************************************)
(* Optional values: None is the empty sequence, a present value v is <<v>>. *)
(***************************************************************************)
None == <<>>
Some(v) == <<v>>
IsNone(o) == o = <<>>
Get(o) == o[1]

(***************************************************************************)
(* Text.  A Python str is modelled by what the code asks of it: its length *)
(* and its strip().  It is a run of `lead` whitespace characters, a core   *)
(* of `n` characters that neither starts nor ends with whitespace (named   *)
(* by `core`), and `trail` whitespace characters.                          *)
(***************************************************************************)
Text(lead, core, n, trail) == [lead |-> lead, core |-> core, n |-> n, trail |-> trail]
EmptyText == Text(0, "", 0, 0)
\* len(s)
Len_(s) == s.lead + s.n + s.trail
\* s.lstrip()
StripLeading(s) == IF s.n = 0 THEN EmptyText ELSE Text(0, s.core, s.n, s.trail)
\* s.strip()
Strip(s) == IF s.n = 0 THEN EmptyText ELSE Text(0, s.core, s.n, 0)
\* Python truthiness of a str: bool(s)
Truthy(s) == Len_(s) > 0

(***************************************************************************)
(* UUID strings.  uuid.UUID(s) accepts several spellings of one UUID       *)
(* (upper case, no hyphens, braces) and str(u) returns the canonical one,  *)
(* so str(UUID(s)) = s only for the canonical spelling.  A string is a     *)
(* record: uuid 0 is a string UUID() rejects with ValueError.              *)
(***************************************************************************)
Canon(u) == [uuid |-> u, canonical |-> TRUE]
Alt(u) == [uuid |-> u, canonical |-> FALSE]
Malformed == [uuid |-> 0, canonical |-> FALSE]
\* UUID(s) succeeds
IsUUID(s) == s.uuid # 0
\* UUID(s), where it succeeds
UUID(s) == s.uuid
\* str(u)
StrOf(u) == Canon(u)


(***************************************************************************)
(* State.                                                                  *)
(***************************************************************************)
VARIABLES
    todos,          \* Task Store: todo id |-> row, for the rows that exist
    nextTodo,       \* number of todo rows ever inserted (ids are fresh)
    now,            \* the clock datetime.utcnow() reads; a commit takes time
    last,           \* the direct tool call being answered, and its result
    conversations,  \* Conversation Store: conversation id |-> row
    messages,       \* the committed message rows, in the order of their ids
    turn,           \* request slot |-> the chat request being served there
    begun,          \* number of chat requests received
    tally           \* conversation id |-> turns ended in it, by outcome

toolVars == <<todos, nextTodo, now, last>>
chatVars == <<conversations, messages, turn, begun, tally>>
vars == <<todos, nextTodo, now, last, conversations, messages, turn, begun, tally>>

(***************************************************************************)
(* Task Store rows and the tools' results (mcp/server.py).                 *)
(***************************************************************************)
\* Priority levels of a todo.
Priorities == {"low", "medium", "high"}
\* Another default than the code's.
LowPriority == "low"
DefaultPriority == "medium"

\* The messages of the ValueErrors the tools raise, by kind.
ErrEmptyTitle == "Todo title cannot be empty"
ErrTitleLong == "Todo title must be 500 characters or less"
ErrDescriptionLong == "Todo description must be 5000 characters or less"
ErrNoFields == "At least one field (title, description, or priority) must be provided"
ErrPriority == "Priority must be one of: low, medium, high"
ErrNotFound == "Todo not found or does not belong to user"
ErrBadUUID == "badly formed hexadecimal UUID string"
ValidationErrors == {ErrEmptyTitle, ErrTitleLong, ErrDescriptionLong, ErrNoFields, ErrPriority}

\* A tool call that raised: nothing was committed, the store is as it was.
Raise(e, db) == [err |-> e, out |-> [detail |-> e], todos |-> db]
\* A tool call that returned `out` after committing store `db`.
Return(out, db) == [err |-> "", out |-> out, todos |-> db]

\* session.get(Todo, id): the row, or None.
GetTodo(db, id) == IF id \in DOMAIN db THEN Some(db[id]) ELSE None

\* The store with row `row` inserted or replaced (session.add / commit).
Put(db, row) == [i \in DOMAIN db \cup {row.id} |-> IF i = row.id THEN row ELSE db[i]]

\* A delete that keeps the row.
RemoveKeeping(db, id) == db

\* The store without row `id` (session.delete / commit).
Remove(db, id) == [i \in DOMAIN db \ {id} |-> db[i]]

\* add_task without the test of the description's length.
add_task_any_description(db, t, fresh, user_id, title, description) ==
    IF ~Truthy(title) \/ ~Truthy(Strip(title)) THEN Raise(ErrEmptyTitle, db)
    ELSE IF Len_(title) > MaxTitleLen THEN Raise(ErrTitleLong, db)
    ELSE IF ~IsUUID(user_id) THEN Raise(ErrBadUUID, db)
    ELSE LET todo == [id |-> fresh,
                      user_id |-> UUID(user_id),
                      title |-> Strip(title),
                      description |-> IF ~IsNone(description) /\ Truthy(Get(description))
                                      THEN Some(Strip(Get(description))) ELSE None,
                      priority |-> DefaultPriority,
                      completed |-> FALSE,
                      created_at |-> t,
                      updated_at |-> t]
         IN Return([task_id |-> StrOf(todo.id),
                    title |-> todo.title,
                    description |-> todo.description,
                    completed |-> todo.completed,
                    priority |-> todo.priority,
                    created_at |-> todo.created_at],
                   Put(db, todo))

\* add_task(user_id, title, description): validation, then one insert.
add_task(db, t, fresh, user_id, title, description) ==
    IF ~Truthy(title) \/ ~Truthy(Strip(title)) THEN Raise(ErrEmptyTitle, db)
    ELSE IF Len_(title) > MaxTitleLen THEN Raise(ErrTitleLong, db)
    ELSE IF ~IsNone(description) /\ Truthy(Get(description))
            /\ Len_(Get(description)) > MaxDescriptionLen
        THEN Raise(ErrDescriptionLong, db)
    ELSE IF ~IsUUID(user_id) THEN Raise(ErrBadUUID, db)
    ELSE LET todo == [id |-> fresh,
                      user_id |-> UUID(user_id),
                      title |-> Strip(title),
                      description |-> IF ~IsNone(description) /\ Truthy(Get(description))
                                      THEN Some(Strip(Get(description))) ELSE None,
                      priority |-> DefaultPriority,
                      completed |-> FALSE,
                      created_at |-> t,
                      updated_at |-> t]
         IN Return([task_id |-> StrOf(todo.id),
                    title |-> todo.title,
                    description |-> todo.description,
                    completed |-> todo.completed,
                    priority |-> todo.priority,
                    created_at |-> todo.created_at],
                   Put(db, todo))

\* The rows of set S, newest created first (ORDER BY created_at DESC).
RECURSIVE NewestFirst(_)
NewestFirst(S) ==
    IF S = {} THEN <<>>
    ELSE LET top == CHOOSE r \in S : \A q \in S :
                        q.created_at < r.created_at
                        \/ (q.created_at = r.created_at /\ q.id <= r.id)
         IN <<top>> \o NewestFirst(S \ {top})

\* The snapshot list_tasks returns of one row.
ListSnapshot(todo) ==
    [task_id |-> StrOf(todo.id), title |-> todo.title, description |-> todo.description,
     completed |-> todo.completed, priority |-> todo.priority,
     created_at |-> todo.created_at, updated_at |-> todo.updated_at]

\* The rows list_tasks selects: the owner's, filtered by completion status.
ListQuery(db, owner, status) ==
    {r \in {db[i] : i \in DOMAIN db} :
        /\ r.user_id = owner
        /\ (status = "pending" => r.completed = FALSE)
        /\ (status = "completed" => r.completed = TRUE)}

\* list_tasks(user_id, status)
list_tasks(db, user_id, status) ==
    IF ~IsUUID(user_id) THEN Raise(ErrBadUUID, db)
    ELSE LET rows == NewestFirst(ListQuery(db, UUID(user_id), status))
         IN Return([tasks |-> [k \in 1..Len(rows) |-> ListSnapshot(rows[k])],
                    total |-> Len(rows),
                    status_filter |-> status],
                   db)

\* A variant of the ownership test that only looks for the row.
NotOwnedRowOnly(found, user_id) == IsNone(found)

\* The ownership test of complete_task, delete_task and update_task:
\* `not todo or str(todo.user_id) != user_id`.
NotOwned(found, user_id) == IsNone(found) \/ StrOf(Get(found).user_id) # user_id

\* A variant of complete_task that tells a missing row from a foreign one.
complete_task_telling(db, t, user_id, task_id) ==
    IF ~IsUUID(task_id) THEN Raise(ErrBadUUID, db)
    ELSE LET found == GetTodo(db, UUID(task_id))
         IN IF IsNone(found) THEN Raise("Todo not found", db)
            ELSE IF StrOf(Get(found).user_id) # user_id
                THEN Raise("Todo does not belong to user", db)
            ELSE LET todo == [Get(found) EXCEPT !.completed = TRUE, !.updated_at = t]
                 IN Return([task_id |-> StrOf(todo.id), title |-> todo.title,
                            completed |-> todo.completed, updated_at |-> todo.updated_at],
                           Put(db, todo))

\* A completion that also puts the priority back to the default.
complete_task_resetting(db, t, user_id, task_id) ==
    IF ~IsUUID(task_id) THEN Raise(ErrBadUUID, db)
    ELSE LET found == GetTodo(db, UUID(task_id))
         IN IF NotOwned(found, user_id) THEN Raise(ErrNotFound, db)
            ELSE LET todo == [Get(found) EXCEPT !.completed = TRUE, !.updated_at = t,
                                                !.priority = DefaultPriority]
                 IN Return([task_id |-> StrOf(todo.id), title |-> todo.title,
                            completed |-> todo.completed, updated_at |-> todo.updated_at],
                           Put(db, todo))

\* complete_task(user_id, task_id)
complete_task(db, t, user_id, task_id) ==
    IF ~IsUUID(task_id) THEN Raise(ErrBadUUID, db)
    ELSE LET found == GetTodo(db, UUID(task_id))
         IN IF NotOwned(found, user_id) THEN Raise(ErrNotFound, db)
            ELSE LET todo == [Get(found) EXCEPT !.completed = TRUE, !.updated_at = t]
                 IN Return([task_id |-> StrOf(todo.id), title |-> todo.title,
                            completed |-> todo.completed, updated_at |-> todo.updated_at],
                           Put(db, todo))

\* delete_task(user_id, task_id)
delete_task(db, user_id, task_id) ==
    IF ~IsUUID(task_id) THEN Raise(ErrBadUUID, db)
    ELSE LET found == GetTodo(db, UUID(task_id))
         IN IF NotOwned(found, user_id) THEN Raise(ErrNotFound, db)
            ELSE Return([task_id |-> task_id, deleted |-> TRUE],
                        Remove(db, Get(found).id))

\* update_task, the title branch: the in-memory row after it, or the error.
UpdateTitle(todo, title) ==
    IF IsNone(title) THEN [err |-> "", todo |-> todo]
    ELSE IF ~Truthy(Strip(Get(title))) THEN [err |-> ErrEmptyTitle, todo |-> todo]
    ELSE IF Len_(Get(title)) > MaxTitleLen THEN [err |-> ErrTitleLong, todo |-> todo]
    ELSE [err |-> "", todo |-> [todo EXCEPT !.title = Strip(Get(title))]]

\* update_task, the description branch.
UpdateDescription(todo, description) ==
    IF IsNone(description) THEN [err |-> "", todo |-> todo]
    ELSE IF Truthy(Get(description)) /\ Len_(Get(description)) > MaxDescriptionLen
        THEN [err |-> ErrDescriptionLong, todo |-> todo]
    ELSE [err |-> "",
          todo |-> [todo EXCEPT !.description =
                        IF Truthy(Get(description)) THEN Some(Strip(Get(description)))
                        ELSE None]]

\* A priority branch that also reopens the task.
UpdatePriorityReopens(todo, priority) ==
    IF IsNone(priority) THEN [err |-> "", todo |-> todo]
    ELSE IF Get(priority) \notin Priorities THEN [err |-> ErrPriority, todo |-> todo]
    ELSE [err |-> "", todo |-> [todo EXCEPT !.priority = Get(priority), !.completed = FALSE]]

\* update_task, the priority branch.
UpdatePriority(todo, priority) ==
    IF IsNone(priority) THEN [err |-> "", todo |-> todo]
    ELSE IF Get(priority) \notin Priorities THEN [err |-> ErrPriority, todo |-> todo]
    ELSE [err |-> "", todo |-> [todo EXCEPT !.priority = Get(priority)]]

\* A variant of update_task's failure path that flushes the assignments
\* made so far.
UpdateAbortFlushed(db, todo) == Put(db, todo)

\* What update_task leaves in the database when a field check raises after
\* earlier fields were assigned to the in-memory row: the session is closed
\* without a commit, so the assignments are dropped.
UpdateAbort(db, todo) == db

\* A variant of update_task that looks the task up before it counts the
\* fields.
update_task_lookup_first(db, t, user_id, task_id, title, description, priority) ==
    IF ~IsUUID(task_id) THEN Raise(ErrBadUUID, db)
    ELSE LET found == GetTodo(db, UUID(task_id))
         IN IF NotOwned(found, user_id) THEN Raise(ErrNotFound, db)
            ELSE IF IsNone(title) /\ IsNone(description) /\ IsNone(priority)
                THEN Raise(ErrNoFields, db)
            ELSE LET s1 == UpdateTitle(Get(found), title)
                     s2 == UpdateDescription(s1.todo, description)
                     s3 == UpdatePriority(s2.todo, priority)
                 IN IF s1.err # "" THEN Raise(s1.err, UpdateAbort(db, s1.todo))
                    ELSE IF s2.err # "" THEN Raise(s2.err, UpdateAbort(db, s2.todo))
                    ELSE IF s3.err # "" THEN Raise(s3.err, UpdateAbort(db, s3.todo))
                    ELSE LET todo == [s3.todo EXCEPT !.updated_at = t]
                         IN Return([task_id |-> StrOf(todo.id), title |-> todo.title,
                                    description |-> todo.description,
                                    completed |-> todo.completed,
                                    priority |-> todo.priority,
                                    updated_at |-> todo.updated_at],
                                   Put(db, todo))

\* update_task(user_id, task_id, title, description, priority)
update_task(db, t, user_id, task_id, title, description, priority) ==
    IF IsNone(title) /\ IsNone(description) /\ IsNone(priority) THEN Raise(ErrNoFields, db)
    ELSE IF ~IsUUID(task_id) THEN Raise(ErrBadUUID, db)
    ELSE LET found == GetTodo(db, UUID(task_id))
         IN IF NotOwned(found, user_id) THEN Raise(ErrNotFound, db)
            ELSE LET s1 == UpdateTitle(Get(found), title)
                     s2 == UpdateDescription(s1.todo, description)
                     s3 == UpdatePriority(s2.todo, priority)
                 IN IF s1.err # "" THEN Raise(s1.err, UpdateAbort(db, s1.todo))
                    ELSE IF s2.err # "" THEN Raise(s2.err, UpdateAbort(db, s2.todo))
                    ELSE IF s3.err # "" THEN Raise(s3.err, UpdateAbort(db, s3.todo))
                    ELSE LET todo == [s3.todo EXCEPT !.updated_at = t]
                         IN Return([task_id |-> StrOf(todo.id), title |-> todo.title,
                                    description |-> todo.description,
                                    completed |-> todo.completed,
                                    priority |-> todo.priority,
                                    updated_at |-> todo.updated_at],
                                   Put(db, todo))

(***************************************************************************)
(* A chat request in service (api/routes.py, chat_endpoint).  `pc` is the  *)
(* await the handler is at; `steps` lists the steps it has completed.      *)
(***************************************************************************)
Slots == {1, 2}

Idle ==
    [pc |-> "idle", user_id |-> Malformed, authenticated_user_id |-> Malformed,
     message |-> "", requested |-> None,
     conversation_id |-> 0, history |-> <<>>, pending |-> None,
     content |-> None, calls |-> <<>>, k |-> 0, tool_calls_made |-> <<>>,
     agent_message |-> "", response |-> [status |-> 0], steps |-> <<>>,
     sent |-> <<>>]

(***************************************************************************)
(* ToolSpec: the tools called directly.  The arguments are drawn from sets *)
(* that hold, for every check of the code, a value on each side of it.     *)
(***************************************************************************)
\* Owner identity strings: two owners, a second spelling of the first
\* owner's UUID, and a string that is no UUID.
ToolUsers == {Canon(1), Alt(1), Canon(2), Malformed}
\* Task id strings: every id the store can hold, one id it never holds,
\* a second spelling of the first id, and a string that is no UUID.
TaskIds == {Canon(i) : i \in 1..(MaxTasks + 1)} \cup {Alt(1), Malformed}

Milk == Text(1, "milk", 4, 2)
Tea == Text(0, "tea", 3, 0)
Blank == Text(3, "", 0, 0)
Title501 == Text(0, "long", MaxTitleLen + 1, 0)
Padded501 == Text(1, "long", MaxTitleLen, 0)
Note == Text(0, "note", 4, 1)
Description5001 == Text(0, "big", MaxDescriptionLen + 1, 0)

\* add_task's title and description: each check passing and failing.
AddArgs ==
    {<<Milk, None>>, <<Milk, Some(Description5001)>>, <<EmptyText, None>>,
     <<Blank, None>>, <<Title501, None>>, <<Padded501, Some(Note)>>}
\* update_task's title, description and priority: no field, each field
\* alone, accepted and rejected, and an accepted field before a rejected one.
UpdateArgs ==
    {<<None, None, None>>,
     <<Some(Tea), None, None>>, <<None, Some(Note), None>>, <<None, None, Some("high")>>,
     <<None, Some(EmptyText), None>>,
     <<Some(Blank), None, None>>, <<Some(Title501), None, None>>,
     <<None, Some(Description5001), None>>, <<None, None, Some("urgent")>>,
     <<Some(Tea), None, Some("urgent")>>, <<Some(Tea), Some(Description5001), Some("high")>>,
     <<Some(Padded501), Some(Note), Some("low")>>}
StatusFilters == {"all", "pending", "completed"}

\* The record of a direct tool call: its arguments and what it returns.
Called(op, user_id, task_id, title, description, priority, status, r) ==
    [op |-> op, user_id |-> user_id, task_id |-> task_id, title |-> title,
     description |-> description, priority |-> priority, status |-> status,
     err |-> r.err, out |-> r.out]

NoCall == [op |-> "none"]

\* A tool call's effect on the store: a call that returned has committed,
\* which takes time; a call that raised has left everything as it was.  The
\* server takes a call when it has answered the one before.
Commit(r, inserts) ==
    /\ last = NoCall
    /\ todos' = r.todos
    /\ nextTodo' = IF r.err = "" THEN nextTodo + inserts ELSE nextTodo
    /\ now' = IF r.err = "" THEN now + 1 ELSE now

AddTask(user_id, title, description) ==
    LET r == add_task(todos, now, nextTodo + 1, user_id, title, description)
    IN /\ r.err = "" => (now < MaxCommits /\ nextTodo < MaxTasks)
       /\ Commit(r, 1)
       /\ last' = Called("add_task", user_id, None, Some(title), description, None, None, r)

ListTasks(user_id, status) ==
    LET r == list_tasks(todos, user_id, status)
    IN /\ last = NoCall
       /\ UNCHANGED <<todos, nextTodo, now>>
       /\ last' = Called("list_tasks", user_id, None, None, None, None, Some(status), r)

CompleteTask(user_id, task_id) ==
    LET r == complete_task(todos, now, user_id, task_id)
    IN /\ r.err = "" => now < MaxCommits
       /\ Commit(r, 0)
       /\ last' = Called("complete_task", user_id, Some(task_id), None, None, None, None, r)

DeleteTask(user_id, task_id) ==
    LET r == delete_task(todos, user_id, task_id)
    IN /\ r.err = "" => now < MaxCommits
       /\ Commit(r, 0)
       /\ last' = Called("delete_task", user_id, Some(task_id), None, None, None, None, r)

UpdateTask(user_id, task_id, title, description, priority) ==
    LET r == update_task(todos, now, user_id, task_id, title, description, priority)
    IN /\ r.err = "" => now < MaxCommits
       /\ Commit(r, 0)
       /\ last' = Called("update_task", user_id, Some(task_id), title, description,
                         priority, None, r)

\* The result of the call leaves the server.
Answer ==
    /\ last # NoCall
    /\ last' = NoCall
    /\ UNCHANGED <<todos, nextTodo, now>>

ToolInit ==
    /\ todos = <<>>
    /\ nextTodo = 0
    /\ now = 0
    /\ last = NoCall
    /\ conversations = <<>>
    /\ messages = <<>>
    /\ turn = [r \in Slots |-> Idle]
    /\ begun = 0
    /\ tally = <<>>

ToolNext ==
    \/ \E u \in ToolUsers, a \in AddArgs : AddTask(u, a[1], a[2])
    \/ \E u \in ToolUsers, s \in StatusFilters : ListTasks(u, s)
    \/ \E u \in ToolUsers, i \in TaskIds : CompleteTask(u, i)
    \/ \E u \in ToolUsers, i \in TaskIds : DeleteTask(u, i)
    \/ \E u \in ToolUsers, i \in TaskIds, a \in UpdateArgs :
          UpdateTask(u, i, a[1], a[2], a[3])
    \/ Answer

ToolSpec == ToolInit /\ [][ToolNext /\ UNCHANGED chatVars]_vars

(***************************************************************************)
(* Conversation Store and context reconstruction (services/context.py).    *)
(***************************************************************************)
\* The rows of set S, oldest created first (ORDER BY created_at).  Rows of
\* equal created_at come in the order of their ids.
RECURSIVE OldestFirst(_)
OldestFirst(S) ==
    IF S = {} THEN <<>>
    ELSE LET first == CHOOSE r \in S : \A q \in S :
                          r.created_at < q.created_at
                          \/ (r.created_at = q.created_at /\ r.id <= q.id)
         IN <<first>> \o OldestFirst(S \ {first})

\* The message query without its where clause.
MessagesOfAll(msgs, conversation_id) ==
    OldestFirst({msgs[i] : i \in 1..Len(msgs)})

\* The message query of get_conversation_history and get_conversation_detail.
MessagesOf(msgs, conversation_id) ==
    OldestFirst({msgs[i] : i \in {j \in 1..Len(msgs) : msgs[j].conversation_id = conversation_id}})

\* The history of one conversation as the agent gets it.
Formatted(rows) ==
    [k \in 1..Len(rows) |-> [role |-> rows[k].role, content |-> rows[k].content]]

\* get_conversation_history without its ownership test.
get_conversation_history_any_owner(convs, msgs, user_id, conversation_id) ==
    IF conversation_id \notin DOMAIN convs
        THEN [status |-> 404, detail |-> "Conversation not found",
              history |-> <<>>, fetched |-> FALSE]
    ELSE [status |-> 200, detail |-> "",
          history |-> Formatted(MessagesOf(msgs, conversation_id)), fetched |-> TRUE]

\* get_conversation_history with the ownership test after the message query.
get_conversation_history_fetch_first(convs, msgs, user_id, conversation_id) ==
    IF conversation_id \notin DOMAIN convs
        THEN [status |-> 404, detail |-> "Conversation not found",
              history |-> <<>>, fetched |-> FALSE]
    ELSE IF convs[conversation_id].user_id # user_id
        THEN [status |-> 401, detail |-> "Unauthorized: Conversation does not belong to user",
              history |-> <<>>, fetched |-> TRUE]
    ELSE [status |-> 200, detail |-> "",
          history |-> Formatted(MessagesOf(msgs, conversation_id)), fetched |-> TRUE]

\* get_conversation_history(session, user_id, conversation_id): the HTTP
\* status it raises (200: none), the history it returns, and whether it ran
\* the message query.
get_conversation_history(convs, msgs, user_id, conversation_id) ==
    IF conversation_id \notin DOMAIN convs
        THEN [status |-> 404, detail |-> "Conversation not found",
              history |-> <<>>, fetched |-> FALSE]
    ELSE IF convs[conversation_id].user_id # user_id
        THEN [status |-> 401, detail |-> "Unauthorized: Conversation does not belong to user",
              history |-> <<>>, fetched |-> FALSE]
    ELSE [status |-> 200, detail |-> "",
          history |-> Formatted(MessagesOf(msgs, conversation_id)), fetched |-> TRUE]

\* A conversation row that takes the first user for its owner.
create_conversation_shared(convs, t, user_id) ==
    [id |-> Cardinality(DOMAIN convs) + 1, user_id |-> Canon(1),
     created_at |-> t, updated_at |-> t]

\* create_conversation(session, user_id): the row it commits.
create_conversation(convs, t, user_id) ==
    [id |-> Cardinality(DOMAIN convs) + 1, user_id |-> user_id,
     created_at |-> t, updated_at |-> t]

\* Message(user_id=, conversation_id=, role=, content=): the row save_message
\* builds; created_at is read when the row is built, the id is assigned by
\* the insert.
Message(t, conversation_id, user_id, role, content) ==
    [user_id |-> user_id, conversation_id |-> conversation_id, role |-> role,
     content |-> content, created_at |-> t]

\* A commit that stores nothing.
InsertMessageLost(msgs, m) == msgs

\* A commit that takes the place of the newest row of the conversation when
\* that row was built no earlier than the one committed.
InsertMessageOver(msgs, m) ==
    LET row == [id |-> Len(msgs) + 1, user_id |-> m.user_id,
                conversation_id |-> m.conversation_id, role |-> m.role,
                content |-> m.content, created_at |-> m.created_at]
    IN IF /\ msgs # <<>>
          /\ msgs[Len(msgs)].conversation_id = m.conversation_id
          /\ msgs[Len(msgs)].created_at >= m.created_at
       THEN [msgs EXCEPT ![Len(msgs)] = [row EXCEPT !.id = Len(msgs)]]
       ELSE Append(msgs, row)

\* save_message's commit of a built row.
InsertMessage(msgs, m) ==
    Append(msgs, [id |-> Len(msgs) + 1, user_id |-> m.user_id,
                  conversation_id |-> m.conversation_id, role |-> m.role,
                  content |-> m.content, created_at |-> m.created_at])

\* An update without its where clause.
update_conversation_timestamp_all(convs, t, conversation_id) ==
    [c \in DOMAIN convs |-> [convs[c] EXCEPT !.updated_at = t]]

\* update_conversation_timestamp(session, conversation_id)
update_conversation_timestamp(convs, t, conversation_id) ==
    IF conversation_id \in DOMAIN convs
    THEN [convs EXCEPT ![conversation_id].updated_at = t]
    ELSE convs

\* verify_conversation_ownership(session, user_id, conversation_id): the HTTP
\* status it raises (200: none).
verify_conversation_ownership(convs, user_id, conversation_id) ==
    IF conversation_id \notin DOMAIN convs
        THEN [status |-> 404, detail |-> "Conversation not found"]
    ELSE IF convs[conversation_id].user_id # user_id
        THEN [status |-> 401, detail |-> "Unauthorized: Conversation does not belong to user"]
    ELSE [status |-> 200, detail |-> ""]

\* The conversation query without its where clause.
ConversationsOfAll(convs, user_id) == {convs[c] : c \in DOMAIN convs}

\* `where(Conversation.user_id == user_id)`: the conversations of one owner.
ConversationsOf(convs, user_id) ==
    {convs[c] : c \in {i \in DOMAIN convs : convs[i].user_id = user_id}}

\* The rows of set S, latest updated first (ORDER BY updated_at DESC).  Rows
\* of equal updated_at come in the order of their ids.
RECURSIVE LatestFirst(_)
LatestFirst(S) ==
    IF S = {} THEN <<>>
    ELSE LET first == CHOOSE r \in S : \A q \in S :
                          r.updated_at > q.updated_at
                          \/ (r.updated_at = q.updated_at /\ r.id <= q.id)
         IN <<first>> \o LatestFirst(S \ {first})

\* `select(func.count()).where(Message.conversation_id == conversation_id)`
MessageCount(msgs, conversation_id) ==
    Cardinality({i \in 1..Len(msgs) : msgs[i].conversation_id = conversation_id})

\* list_user_conversations(session, user_id, limit, offset): the page of the
\* owner's conversations, and the count of all of them.
list_user_conversations(convs, msgs, user_id, limit, offset) ==
    LET rows == LatestFirst(ConversationsOf(convs, user_id))
        to == IF offset + limit < Len(rows) THEN offset + limit ELSE Len(rows)
        page == SubSeq(rows, offset + 1, to)
    IN [conversations |->
            [k \in 1..Len(page) |->
                [id |-> page[k].id, user_id |-> page[k].user_id,
                 created_at |-> page[k].created_at, updated_at |-> page[k].updated_at,
                 message_count |-> MessageCount(msgs, page[k].id)]],
        total |-> Cardinality(ConversationsOf(convs, user_id))]

\* get_conversation_detail(session, user_id, conversation_id): the status it
\* raises, or the conversation with its messages, oldest first.
get_conversation_detail(convs, msgs, user_id, conversation_id) ==
    LET v == verify_conversation_ownership(convs, user_id, conversation_id)
        rows == MessagesOf(msgs, conversation_id)
    IN IF v.status # 200 THEN v
       ELSE [status |-> 200,
             id |-> conversation_id,
             user_id |-> convs[conversation_id].user_id,
             created_at |-> convs[conversation_id].created_at,
             updated_at |-> convs[conversation_id].updated_at,
             message_count |-> MessageCount(msgs, conversation_id),
             messages |-> [k \in 1..Len(rows) |->
                              [id |-> rows[k].id,
                               conversation_id |-> rows[k].conversation_id,
                               role |-> rows[k].role, content |-> rows[k].content,
                               created_at |-> rows[k].created_at]]]

(***************************************************************************)
(* The agent runner (agent/runner.py).                                     *)
(***************************************************************************)
ToolNames == {"add_task", "list_tasks", "complete_task", "delete_task", "update_task"}
\* The tools whose successful call commits a change of the Task Store.
MutatingTools == {"add_task", "complete_task", "delete_task", "update_task"}

\* The keyword arguments of a tool call: every key the model may emit,
\* None where the key is absent from the payload.
Args(user_id, task_id, title, description, priority, status) ==
    [user_id |-> user_id, task_id |-> task_id, title |-> title,
     description |-> description, priority |-> priority, status |-> status]

\* The keys each tool function accepts, and those it requires.
Accepted(name) ==
    CASE name = "add_task" -> {"user_id", "title", "description"}
      [] name = "list_tasks" -> {"user_id", "status"}
      [] name = "complete_task" -> {"user_id", "task_id"}
      [] name = "delete_task" -> {"user_id", "task_id"}
      [] name = "update_task" -> {"user_id", "task_id", "title", "description", "priority"}
      [] OTHER -> {}
Required(name) ==
    CASE name = "add_task" -> {"user_id", "title"}
      [] name = "list_tasks" -> {"user_id"}
      [] name \in {"complete_task", "delete_task", "update_task"} -> {"user_id", "task_id"}
      [] OTHER -> {}
Present(args) == {k \in DOMAIN args : ~IsNone(args[k])}

ErrUnknownTool == "Unknown tool"
ErrTypeError == "TypeError"
ErrParse == "arguments do not evaluate"
ErrModel == "model call failed"

\* A dispatcher whose tools leave their changes uncommitted.
execute_tool_call_uncommitted(db, t, fresh, name, args) ==
    IF name \notin ToolNames THEN Raise(ErrUnknownTool, db)
    ELSE IF ~(Required(name) \subseteq Present(args) /\ Present(args) \subseteq Accepted(name))
        THEN Raise(ErrTypeError, db)
    ELSE LET res == CASE name = "add_task" ->
                          add_task(db, t, fresh, Get(args.user_id), Get(args.title),
                                   args.description)
                      [] name = "list_tasks" ->
                          list_tasks(db, Get(args.user_id),
                                     IF IsNone(args.status) THEN "all" ELSE Get(args.status))
                      [] name = "complete_task" ->
                          complete_task(db, t, Get(args.user_id), Get(args.task_id))
                      [] name = "delete_task" ->
                          delete_task(db, Get(args.user_id), Get(args.task_id))
                      [] name = "update_task" ->
                          update_task(db, t, Get(args.user_id), Get(args.task_id),
                                      args.title, args.description, args.priority)
         IN [res EXCEPT !.todos = db]

\* execute_tool_call(tool_name, arguments): the lookup in tool_map, then
\* tool_func(**arguments).
execute_tool_call(db, t, fresh, name, args) ==
    IF name \notin ToolNames THEN Raise(ErrUnknownTool, db)
    ELSE IF ~(Required(name) \subseteq Present(args) /\ Present(args) \subseteq Accepted(name))
        THEN Raise(ErrTypeError, db)
    ELSE CASE name = "add_task" ->
                add_task(db, t, fresh, Get(args.user_id), Get(args.title), args.description)
           [] name = "list_tasks" ->
                list_tasks(db, Get(args.user_id),
                           IF IsNone(args.status) THEN "all" ELSE Get(args.status))
           [] name = "complete_task" ->
                complete_task(db, t, Get(args.user_id), Get(args.task_id))
           [] name = "delete_task" ->
                delete_task(db, Get(args.user_id), Get(args.task_id))
           [] name = "update_task" ->
                update_task(db, t, Get(args.user_id), Get(args.task_id),
                            args.title, args.description, args.priority)

\* `if "user_id" not in tool_args: tool_args["user_id"] = user_id`
InjectUser(args, user_id) ==
    IF IsNone(args.user_id) THEN [args EXCEPT !.user_id = Some(user_id)] ELSE args

\* `assistant_message.content or "Action completed."`
ActionCompleted == "Action completed."
ReplyText(content) ==
    IF IsNone(content) \/ Get(content) = "" THEN ActionCompleted ELSE Get(content)

(***************************************************************************)
(* The chat endpoint (api/routes.py), one action per step between awaits.  *)
(***************************************************************************)
\* The users that send chat requests: the path user and the token's user.
ChatUsers == {Canon(1), Canon(2)}
\* The text of the n-th chat request.
Utterance(n) == "message " \o ToString(n)
\* The conversation_id of a request: none, 0, or an id that may exist.
RequestedConversations == {None, Some(0)} \cup {Some(c) : c \in 1..MaxRequests}

\* A tool call of a model reply: the function name and its arguments
\* payload, which eval() turns into a dict or fails on.
Call(name, parses, args) == [name |-> name, parses |-> parses, args |-> args]
NoArgs == Args(None, None, None, None, None, None)
\* The user_id a model reply may carry: none, or the second user's.
EmittedUsers == {None, Some(Canon(2))}
ModelCalls ==
    UNION {{Call("add_task", TRUE, Args(u, None, Some(Milk), None, None, None)),
            Call("list_tasks", TRUE, Args(u, None, None, None, None, Some("all"))),
            Call("complete_task", TRUE, Args(u, Some(Canon(1)), None, None, None, None)),
            Call("delete_task", TRUE, Args(u, Some(Canon(1)), None, None, None, None)),
            Call("update_task", TRUE, Args(u, Some(Canon(1)), Some(Title501), None, None, None))}
           : u \in EmittedUsers}
    \cup {Call("drop_tasks", TRUE, NoArgs), Call("add_task", FALSE, NoArgs)}
CallLists == UNION {[1..n -> ModelCalls] : n \in 0..MaxCalls}
\* The replies of the model: its text (or none) and its tool calls.
Replies == [content : {None, Some("Done!")}, calls : CallLists]
\* The replies without tool calls.
PlainReplies == [content : {None, Some("Done!")}, calls : {<<>>}]
\* The replies of plain text.
TextReplies == [content : {Some("Done!")}, calls : {<<>>}]

InService(r) == turn[r].pc \notin {"idle", "done"}

\* One more turn ended in conversation c, with outcome `how`.
Tallied(c, how) ==
    IF c \in DOMAIN tally THEN [tally EXCEPT ![c][how] = @ + 1] ELSE tally

\* The handler's `except Exception`: HTTPException(500).
InternalError(e) ==
    [status |-> 500, detail |-> "Internal server error: " \o e, cause |-> e]

\* The turn of slot r ends with an exception e that is no HTTPException.
Abort(r, e) ==
    /\ turn' = [turn EXCEPT ![r].pc = "done", ![r].response = InternalError(e)]
    /\ tally' = Tallied(turn[r].conversation_id, "failed")

\* An endpoint that serves every path user.
ForbiddenNever(user_id, authenticated_user_id) == FALSE

\* `if user_id != authenticated_user_id`
Forbidden(user_id, authenticated_user_id) == user_id # authenticated_user_id
Refused == [status |-> 403, detail |-> "Forbidden: user_id mismatch"]

\* A handler that takes up the locals of the request its slot served before.
BeginTurnWarm(r, user_id, authenticated_user_id, requested, inflight) ==
    /\ ~InService(r)
    /\ begun < MaxRequests
    /\ Cardinality({q \in Slots : InService(q)}) < inflight
    /\ begun' = begun + 1
    /\ turn' = [turn EXCEPT ![r] =
                  IF Forbidden(user_id, authenticated_user_id)
                  THEN [Idle EXCEPT !.pc = "done", !.user_id = user_id,
                                    !.authenticated_user_id = authenticated_user_id,
                                    !.response = Refused]
                  ELSE [@ EXCEPT !.pc = "context", !.user_id = user_id,
                                 !.authenticated_user_id = authenticated_user_id,
                                 !.message = Utterance(begun + 1),
                                 !.requested = requested,
                                 !.response = [status |-> 0]]]
    /\ UNCHANGED <<todos, nextTodo, now, last, conversations, messages, tally>>

\* The request arrives; the path user is compared with the token's user.
BeginTurn(r, user_id, authenticated_user_id, requested, inflight) ==
    /\ ~InService(r)
    /\ begun < MaxRequests
    /\ Cardinality({q \in Slots : InService(q)}) < inflight
    /\ begun' = begun + 1
    /\ turn' = [turn EXCEPT ![r] =
                  IF Forbidden(user_id, authenticated_user_id)
                  THEN [Idle EXCEPT !.pc = "done", !.user_id = user_id,
                                    !.authenticated_user_id = authenticated_user_id,
                                    !.response = Refused]
                  ELSE [Idle EXCEPT !.pc = "context", !.user_id = user_id,
                                    !.authenticated_user_id = authenticated_user_id,
                                    !.message = Utterance(begun + 1),
                                    !.requested = requested]]
    /\ UNCHANGED <<todos, nextTodo, now, last, conversations, messages, tally>>

\* `if request.conversation_id:` reconstruct the context, else create a
\* conversation.
ResolveContext(r) ==
    /\ turn[r].pc = "context"
    /\ IF ~IsNone(turn[r].requested) /\ Get(turn[r].requested) # 0
       THEN LET h == get_conversation_history(conversations, messages, turn[r].user_id,
                                              Get(turn[r].requested))
            IN /\ turn' = [turn EXCEPT ![r] =
                      IF h.status # 200
                      THEN [@ EXCEPT !.pc = "done",
                                     !.response = [status |-> h.status, detail |-> h.detail]]
                      ELSE [@ EXCEPT !.pc = "save_user",
                                     !.conversation_id = Get(turn[r].requested),
                                     !.history = h.history,
                                     !.steps = Append(@, "context")]]
               /\ UNCHANGED <<conversations, tally, now>>
       ELSE LET c == create_conversation(conversations, now, turn[r].user_id)
            IN /\ conversations' = [i \in DOMAIN conversations \cup {c.id} |->
                                       IF i = c.id THEN c ELSE conversations[i]]
               /\ tally' = [i \in DOMAIN tally \cup {c.id} |->
                               IF i = c.id THEN [ok |-> 0, failed |-> 0] ELSE tally[i]]
               /\ now' = now + 1
               /\ turn' = [turn EXCEPT ![r].pc = "save_user",
                                       ![r].conversation_id = c.id,
                                       ![r].history = <<>>,
                                       ![r].steps = Append(@, "context")]
    /\ UNCHANGED <<todos, nextTodo, last, messages, begun>>

\* save_message builds the row of role `role` ...
BuildMessage(r, at, role, content, next) ==
    /\ turn[r].pc = at
    /\ turn' = [turn EXCEPT ![r].pc = next,
                            ![r].pending = Some(Message(now, turn[r].conversation_id,
                                                        turn[r].user_id, role, content))]
    /\ UNCHANGED <<todos, nextTodo, now, last, conversations, messages, begun, tally>>

\* ... and commits it.
CommitMessage(r, at, step, next) ==
    /\ turn[r].pc = at
    /\ messages' = InsertMessage(messages, Get(turn[r].pending))
    /\ now' = now + 1
    /\ turn' = [turn EXCEPT ![r].pc = next, ![r].pending = None,
                            ![r].steps = Append(@, step)]
    /\ UNCHANGED <<todos, nextTodo, last, conversations, begun, tally>>

\* The user message handed to the agent without having been saved.
BuildUserMessageUnsaved(r) ==
    /\ turn[r].pc = "save_user"
    /\ turn' = [turn EXCEPT ![r].pc = "run"]
    /\ UNCHANGED <<todos, nextTodo, now, last, conversations, messages, begun, tally>>

BuildUserMessage(r) == BuildMessage(r, "save_user", "user", turn[r].message, "commit_user")
CommitUserMessage(r) == CommitMessage(r, "commit_user", "user_message", "run")

\* The agent configuration's instructions.
Instructions == "instructions"

\* A message list with the user message in twice.
ComposeEchoed(history, message) ==
    <<[role |-> "system", content |-> Instructions]>> \o history
       \o <<[role |-> "user", content |-> message], [role |-> "user", content |-> message]>>

\* `messages = conversation_history + [{"role": "user", "content": message}]`
\* after the system message: the messages of the chat completion request.
Compose(history, message) ==
    <<[role |-> "system", content |-> Instructions]>> \o history
       \o <<[role |-> "user", content |-> message]>>

\* A runner that sends the chat completion request again when it raised.
ModelFailsRetried(r) ==
    /\ turn[r].pc = "run"
    /\ now' = now + 1
    /\ UNCHANGED <<todos, nextTodo, last, conversations, messages, turn, begun, tally>>

\* agent_runner.run: the chat completion request, which may raise.
ModelFails(r) ==
    /\ turn[r].pc = "run"
    /\ turn' = [turn EXCEPT ![r].pc = "done", ![r].response = InternalError(ErrModel),
                            ![r].sent = Compose(turn[r].history, turn[r].message)]
    /\ tally' = Tallied(turn[r].conversation_id, "failed")
    /\ now' = now + 1
    /\ UNCHANGED <<todos, nextTodo, last, conversations, messages, begun>>

\* agent_runner.run: the chat completion returns `reply`.
ModelReplies(r, reply) ==
    /\ turn[r].pc = "run"
    /\ now' = now + 1
    /\ turn' = [turn EXCEPT ![r].pc = IF reply.calls = <<>> THEN "save_assistant" ELSE "tools",
                            ![r].content = reply.content,
                            ![r].calls = reply.calls,
                            ![r].k = 1,
                            ![r].agent_message = ReplyText(reply.content),
                            ![r].sent = Compose(turn[r].history, turn[r].message),
                            ![r].steps = Append(@, "model")]
    /\ UNCHANGED <<todos, nextTodo, last, conversations, messages, begun, tally>>

\* The loop over the reply's tool calls taken from the last call backwards.
NextCallReversed(r) == turn[r].calls[Len(turn[r].calls) + 1 - turn[r].k]

\* `for tool_call in assistant_message.tool_calls`: the call of this pass.
NextCall(r) == turn[r].calls[turn[r].k]

\* A loop that passes over a call whose arguments do not evaluate.
ExecToolCallSkipping(r) ==
    /\ turn[r].pc = "tools"
    /\ LET call == NextCall(r)
           tool_args == InjectUser(call.args, turn[r].user_id)
           res == execute_tool_call(todos, now, nextTodo + 1, call.name, tool_args)
           after == IF turn[r].k = Len(turn[r].calls) THEN "save_assistant" ELSE "tools"
       IN IF ~call.parses
          THEN /\ turn' = [turn EXCEPT ![r].pc = after, ![r].k = @ + 1]
               /\ UNCHANGED <<todos, nextTodo, now, tally>>
          ELSE IF res.err # ""
          THEN Abort(r, res.err) /\ UNCHANGED <<todos, nextTodo, now>>
          ELSE /\ todos' = res.todos
               /\ nextTodo' = IF call.name = "add_task" THEN nextTodo + 1 ELSE nextTodo
               /\ now' = IF call.name \in MutatingTools THEN now + 1 ELSE now
               /\ turn' = [turn EXCEPT
                     ![r].pc = after,
                     ![r].k = @ + 1,
                     ![r].tool_calls_made =
                         Append(@, [tool |-> call.name, arguments |-> tool_args,
                                    result |-> res.out]),
                     ![r].steps = Append(@, "tool")]
               /\ UNCHANGED tally
    /\ UNCHANGED <<last, conversations, messages, begun>>

\* agent_runner.run: one pass of the loop over the reply's tool calls.
ExecToolCall(r) ==
    /\ turn[r].pc = "tools"
    /\ LET call == NextCall(r)
           tool_args == InjectUser(call.args, turn[r].user_id)
           res == execute_tool_call(todos, now, nextTodo + 1, call.name, tool_args)
       IN IF ~call.parses
          THEN Abort(r, ErrParse) /\ UNCHANGED <<todos, nextTodo, now>>
          ELSE IF res.err # ""
          THEN Abort(r, res.err) /\ UNCHANGED <<todos, nextTodo, now>>
          ELSE /\ todos' = res.todos
               /\ nextTodo' = IF call.name = "add_task" THEN nextTodo + 1 ELSE nextTodo
               /\ now' = IF call.name \in MutatingTools THEN now + 1 ELSE now
               /\ turn' = [turn EXCEPT
                     ![r].pc = IF turn[r].k = Len(turn[r].calls) THEN "save_assistant"
                               ELSE "tools",
                     ![r].k = @ + 1,
                     ![r].tool_calls_made =
                         Append(@, [tool |-> call.name, arguments |-> tool_args,
                                    result |-> res.out]),
                     ![r].steps = Append(@, "tool")]
               /\ UNCHANGED tally
    /\ UNCHANGED <<last, conversations, messages, begun>>

\* `eval(tool_call.function.arguments)` on a payload that is an expression
\* and no dict literal: eval() runs it in the server process, here to the
\* removal of a row of the Task Store, and the pass then fails on its value.
EvalRuns(r) ==
    /\ turn[r].pc = "tools"
    /\ ~NextCall(r).parses
    /\ \E id \in DOMAIN todos : todos' = Remove(todos, id)
    /\ Abort(r, ErrParse)
    /\ UNCHANGED <<nextTodo, now, last, conversations, messages, begun>>

\* The reply saved under the role of the instructions.
BuildAssistantMessageAsSystem(r) ==
    BuildMessage(r, "save_assistant", "system", turn[r].agent_message, "commit_assistant")

\* `save_message(session, user_id, conversation_id, "assistant", ...)`
BuildAssistantMessage(r) ==
    BuildMessage(r, "save_assistant", "assistant", turn[r].agent_message, "commit_assistant")
\* The assistant message's commit passed over.
CommitAssistantMessageSkipped(r) ==
    /\ turn[r].pc = "commit_assistant"
    /\ now' = now + 1
    /\ turn' = [turn EXCEPT ![r].pc = "timestamp", ![r].pending = None,
                            ![r].steps = Append(@, "assistant_message")]
    /\ UNCHANGED <<todos, nextTodo, last, conversations, messages, begun, tally>>

CommitAssistantMessage(r) ==
    CommitMessage(r, "commit_assistant", "assistant_message", "timestamp")

\* update_conversation_timestamp, then the ChatResponse.
UpdateTimestamp(r) ==
    /\ turn[r].pc = "timestamp"
    /\ conversations' = update_conversation_timestamp(conversations, now,
                                                      turn[r].conversation_id)
    /\ now' = now + 1
    /\ turn' = [turn EXCEPT ![r].pc = "done",
                            ![r].steps = Append(@, "timestamp"),
                            ![r].response = [status |-> 200,
                                             conversation_id |-> turn[r].conversation_id,
                                             message |-> turn[r].agent_message,
                                             tool_calls |-> turn[r].tool_calls_made]]
    /\ tally' = Tallied(turn[r].conversation_id, "ok")
    /\ UNCHANGED <<todos, nextTodo, last, messages, begun>>

\* The steps of the requests served in the slots of S, at most `inflight`
\* at a time, the model answering from `replies`.
ChatNext(S, inflight, replies) ==
    \E r \in S :
        \/ \E u \in ChatUsers, a \in ChatUsers, c \in RequestedConversations :
              BeginTurn(r, u, a, c, inflight)
        \/ ResolveContext(r)
        \/ BuildUserMessage(r)
        \/ CommitUserMessage(r)
        \/ ModelFails(r)
        \/ \E reply \in replies : ModelReplies(r, reply)
        \/ ExecToolCall(r)
        \/ BuildAssistantMessage(r)
        \/ CommitAssistantMessage(r)
        \/ UpdateTimestamp(r)

(***************************************************************************)
(* The conversation endpoints (api/routes.py), one action per request.     *)
(***************************************************************************)
\* datetime.isoformat(): the timestamp as a string.
isoformat(t) == [iso |-> t]

\* The request an endpoint has answered: its path user, the token's user,
\* its parameters, whether the handler came to call the context service,
\* and the response.
Served(op, user_id, authenticated_user_id, params, reached, response) ==
    [op |-> op, user_id |-> user_id, authenticated_user_id |-> authenticated_user_id,
     params |-> params, reached |-> reached, response |-> response]

\* The limit and offset of a listing request.
Pages == {[limit |-> 20, offset |-> 0], [limit |-> 101, offset |-> -1],
          [limit |-> 0, offset |-> 1]}

\* A limit passed on as it came.
ClampLimitNot(limit) == limit

\* `limit = max(1, min(limit, 100))`
ClampLimit(limit) ==
    LET least == IF limit < 100 THEN limit ELSE 100
    IN IF least > 1 THEN least ELSE 1

\* `offset = max(0, offset)`
ClampOffset(offset) == IF offset > 0 THEN offset ELSE 0

\* GET /{user_id}/conversations
ListConversations(user_id, authenticated_user_id, page) ==
    /\ last' =
         IF Forbidden(user_id, authenticated_user_id)
         THEN Served("list_conversations", user_id, authenticated_user_id, page, FALSE, Refused)
         ELSE LET limit == ClampLimit(page.limit)
                  offset == ClampOffset(page.offset)
                  res == list_user_conversations(conversations, messages, user_id,
                                                 limit, offset)
              IN Served("list_conversations", user_id, authenticated_user_id, page, TRUE,
                        [status |-> 200,
                         conversations |->
                             [k \in 1..Len(res.conversations) |->
                                 [res.conversations[k] EXCEPT
                                     !.created_at = isoformat(@),
                                     !.updated_at = isoformat(@)]],
                         total |-> res.total, limit |-> limit, offset |-> offset])
    /\ UNCHANGED <<todos, nextTodo, now, conversations, messages, turn, begun, tally>>

\* POST /{user_id}/conversations
CreateConversation(user_id, authenticated_user_id) ==
    /\ begun < MaxRequests
    /\ IF Forbidden(user_id, authenticated_user_id)
       THEN /\ last' = Served("create_conversation", user_id, authenticated_user_id,
                              <<>>, FALSE, Refused)
            /\ UNCHANGED <<conversations, tally, now, begun>>
       ELSE LET c == create_conversation(conversations, now, user_id)
            IN /\ conversations' = [i \in DOMAIN conversations \cup {c.id} |->
                                       IF i = c.id THEN c ELSE conversations[i]]
               /\ tally' = [i \in DOMAIN tally \cup {c.id} |->
                               IF i = c.id THEN [ok |-> 0, failed |-> 0] ELSE tally[i]]
               /\ now' = now + 1
               /\ begun' = begun + 1
               /\ last' = Served("create_conversation", user_id, authenticated_user_id,
                                 <<>>, TRUE,
                                 [status |-> 200, id |-> c.id, user_id |-> c.user_id,
                                  created_at |-> isoformat(c.created_at),
                                  updated_at |-> isoformat(c.updated_at),
                                  message_count |-> 0])
    /\ UNCHANGED <<todos, nextTodo, messages, turn>>

\* GET /{user_id}/conversations/{conversation_id}
GetConversation(user_id, authenticated_user_id, conversation_id) ==
    /\ last' =
         IF Forbidden(user_id, authenticated_user_id)
         THEN Served("get_conversation", user_id, authenticated_user_id, conversation_id,
                     FALSE, Refused)
         ELSE LET d == get_conversation_detail(conversations, messages, user_id,
                                               conversation_id)
              IN Served("get_conversation", user_id, authenticated_user_id,
                        conversation_id, TRUE,
                        IF d.status # 200 THEN d
                        ELSE [d EXCEPT
                                !.created_at = isoformat(@),
                                !.updated_at = isoformat(@),
                                !.messages = [k \in 1..Len(@) |->
                                                 [@[k] EXCEPT !.created_at = isoformat(@)]]])
    /\ UNCHANGED <<todos, nextTodo, now, conversations, messages, turn, begun, tally>>

\* The requests to the conversation endpoints.  A listing or a detail
\* request is served while no chat request is in service, a creation at
\* any time.
EndpointNext ==
    \/ \E u \in ChatUsers, a \in ChatUsers : CreateConversation(u, a)
    \/ /\ \A r \in Slots : ~InService(r)
       /\ \/ \E u \in ChatUsers, a \in ChatUsers, page \in Pages :
                ListConversations(u, a, page)
          \/ \E u \in ChatUsers, a \in ChatUsers, c \in 1..(MaxRequests + 1) :
                GetConversation(u, a, c)

Init == ToolInit
\* Chat requests served one after the other.
Next == ChatNext({1}, 1, Replies)
Spec == Init /\ [][Next]_vars

\* Chat requests served two at a time, their steps interleaved with each
\* other and with requests to the conversation endpoints.
ApiNext ==
    \/ last = NoCall /\ ChatNext(Slots, 2, TextReplies)
    \/ last = NoCall /\ EndpointNext
    \/ Answer /\ UNCHANGED chatVars
ApiSpec == Init /\ [][ApiNext]_vars

(***************************************************************************)
(* Properties of the task tools, checked under ToolSpec.                   *)
(***************************************************************************)
\* The rows of the store.  The server reaches every store with no call in
\* service (after Answer), so what the tools would do is examined there.
Rows == IF last = NoCall THEN {todos[i] : i \in DOMAIN todos} ELSE {}
\* The spellings of task id `id` among the task id strings.
Spellings(id) == {s \in TaskIds : IsUUID(s) /\ UUID(s) = id}
\* User string u names another owner than the row's: the Task Store keeps
\* the owner as a UUID, so another owner is a string of another UUID, or of
\* none.
OtherOwner(u, row) == ~IsUUID(u) \/ UUID(u) # row.user_id
\* The direct call recorded in `last` was op on an existing row.
LastOn(op) ==
    /\ last.op = op
    /\ ~IsNone(last.task_id)
    /\ IsUUID(Get(last.task_id))
    /\ UUID(Get(last.task_id)) \in DOMAIN todos

\* C1: a task added by owner A is in no list result of another owner B, and
\* complete, delete and update by B on its id fail and leave the store (so
\* the task's title, description, priority, completion and existence) as it
\* was, in every state the tools can reach.
C1_OwnerIsolation ==
    /\ (last.op = "add_task" /\ last.err = "") =>
            todos[UUID(last.out.task_id)].user_id = UUID(last.user_id)
    /\ \A row \in Rows : \A b \in ToolUsers :
          OtherOwner(b, row) =>
            /\ \A f \in StatusFilters :
                  LET r == list_tasks(todos, b, f)
                  IN r.err = "" =>
                        \A k \in 1..Len(r.out.tasks) : r.out.tasks[k].task_id # StrOf(row.id)
            /\ \A i \in Spellings(row.id) :
                  /\ complete_task(todos, now, b, i).err # ""
                  /\ complete_task(todos, now, b, i).todos = todos
                  /\ delete_task(todos, b, i).err # ""
                  /\ delete_task(todos, b, i).todos = todos
                  /\ \A a \in UpdateArgs :
                        LET r == update_task(todos, now, b, i, a[1], a[2], a[3])
                        IN r.err # "" /\ r.todos = todos
    /\ \A op \in {"complete_task", "delete_task", "update_task"} :
          (LastOn(op) /\ OtherOwner(last.user_id, todos[UUID(Get(last.task_id))]))
              => last.err # ""

\* C1's case: owner 2 has called complete_task on a task of owner 1, which
\* is still there and not completed.
C1_Witness ==
    /\ LastOn("complete_task")
    /\ last.user_id = Canon(2)
    /\ todos[UUID(Get(last.task_id))].user_id = 1
    /\ todos[UUID(Get(last.task_id))].completed = FALSE
    /\ last.err = ErrNotFound

\* A supplied field of update_task that the tool must reject.
InvalidTitle(title) ==
    ~IsNone(title) /\ (~Truthy(Strip(Get(title))) \/ Len_(Get(title)) > MaxTitleLen)
InvalidDescription(description) ==
    ~IsNone(description) /\ Len_(Get(description)) > MaxDescriptionLen
InvalidPriority(priority) ==
    ~IsNone(priority) /\ Get(priority) \notin {"low", "medium", "high"}
InvalidUpdate(title, description, priority) ==
    InvalidTitle(title) \/ InvalidDescription(description) \/ InvalidPriority(priority)

\* C8: update_task with an invalid supplied field fails and changes no field
\* of any row, its updated_at included, whatever the other fields are; on a
\* task of the acting owner the failure is a validation error.
C8_UpdateAtomic ==
    /\ \A u \in ToolUsers : \A i \in TaskIds : \A a \in UpdateArgs :
          (last = NoCall /\ InvalidUpdate(a[1], a[2], a[3])) =>
              LET r == update_task(todos, now, u, i, a[1], a[2], a[3])
              IN /\ r.err # ""
                 /\ r.todos = todos
                 /\ (IsUUID(i) /\ UUID(i) \in DOMAIN todos /\ StrOf(todos[UUID(i)].user_id) = u)
                        => r.err \in ValidationErrors
    /\ (last.op = "update_task" /\ InvalidUpdate(last.title, last.description, last.priority))
          => last.err # ""

\* C8's case: update_task on an own task with a valid title and a rejected
\* priority has failed, and the task does not have the new title.
C8_Witness ==
    /\ LastOn("update_task")
    /\ last.title = Some(Tea) /\ last.priority = Some("urgent")
    /\ StrOf(todos[UUID(Get(last.task_id))].user_id) = last.user_id
    /\ last.err = ErrPriority
    /\ todos[UUID(Get(last.task_id))].title # Strip(Tea)

\* A task id string of a well-formed UUID that no row has.
AbsentIds == {i \in TaskIds : IsUUID(i) /\ UUID(i) \notin DOMAIN todos}

\* C9: for complete, delete and update, a task id that does not exist and a
\* task id of another owner's task give the same outcome for all other
\* arguments: the one not-found-or-forbidden error (for update_task without
\* any field, the same no-field error).
C9_AbsentOrForeignAlike ==
    \A row \in Rows : \A b \in ToolUsers : \A f \in Spellings(row.id) : \A x \in AbsentIds :
        OtherOwner(b, row) =>
            /\ complete_task(todos, now, b, f).err = ErrNotFound
            /\ complete_task(todos, now, b, f).out = complete_task(todos, now, b, x).out
            /\ complete_task(todos, now, b, x).err = ErrNotFound
            /\ delete_task(todos, b, f).err = ErrNotFound
            /\ delete_task(todos, b, f).out = delete_task(todos, b, x).out
            /\ delete_task(todos, b, x).err = ErrNotFound
            /\ \A a \in UpdateArgs :
                  LET rf == update_task(todos, now, b, f, a[1], a[2], a[3])
                      rx == update_task(todos, now, b, x, a[1], a[2], a[3])
                  IN /\ rf.err = rx.err /\ rf.out = rx.out
                     /\ rf.err = IF a = <<None, None, None>> THEN ErrNoFields ELSE ErrNotFound

\* C9's case: while owner 1 has a task, owner 2 has called delete_task on a
\* task id that does not exist, and got the error a call on owner 1's task
\* gets.
C9_Witness ==
    /\ last.op = "delete_task"
    /\ last.user_id = Canon(2)
    /\ Get(last.task_id) \in AbsentIds
    /\ last.err = ErrNotFound
    /\ \E i \in DOMAIN todos :
          todos[i].user_id = 1 /\ delete_task(todos, Canon(2), StrOf(i)).err = last.err

(***************************************************************************)
(* Properties of the chat endpoint, checked under Spec.                    *)
(***************************************************************************)
\* The turn of slot r has ended with HTTP status `status`.
Ended(r, status) == turn[r].pc = "done" /\ turn[r].response.status = status
\* The turn of slot r asks for a conversation that another user owns.
AsksForeign(r) ==
    /\ ~IsNone(turn[r].requested)
    /\ Get(turn[r].requested) \in DOMAIN conversations
    /\ conversations[Get(turn[r].requested)].user_id # turn[r].user_id

\* C2 (as stated): every tool call a turn has executed was given the owner
\* identity of the turn's authenticated caller.
C2_Claim ==
    \A r \in Slots : \A k \in 1..Len(turn[r].tool_calls_made) :
        turn[r].tool_calls_made[k].arguments.user_id = Some(turn[r].user_id)

\* C3: the step that resolves the context of a turn asking for another
\* user's conversation ends the turn with 401, no step of the turn done, and
\* leaves messages, conversations (timestamps included), tasks, the clock
\* and the tallies as they were; the model is not called.
C3_ForeignTurnNoEffect ==
    [][\A r \in Slots :
          (turn[r].pc = "context" /\ AsksForeign(r) /\ turn'[r] # turn[r]) =>
              /\ turn'[r].pc = "done"
              /\ turn'[r].response.status = 401
              /\ turn'[r].steps = <<>>
              /\ turn'[r].tool_calls_made = <<>>
              /\ IsNone(turn'[r].pending)
              /\ UNCHANGED <<todos, nextTodo, now, conversations, messages, tally>>]_vars

\* C3's case: a turn on another user's conversation, which has messages, has
\* ended with 401.
C3_Witness ==
    /\ Ended(1, 401)
    /\ AsksForeign(1)
    /\ MessagesOf(messages, Get(turn[1].requested)) # <<>>

\* The conversation ids a request may name.
ConversationIds == 0..(MaxRequests + 1)

Continues(r) == ~IsNone(turn[r].requested) /\ Get(turn[r].requested) # 0
\* The user message of the turn of slot r is a row of the Message Store.
UserRowOf(r) ==
    \E i \in 1..Len(messages) :
        /\ messages[i].conversation_id = turn[r].conversation_id
        /\ messages[i].user_id = turn[r].user_id
        /\ messages[i].role = "user"
        /\ messages[i].content = turn[r].message
\* The steps of slot r's turn so far include `step`.
Did(r, step) == \E k \in 1..Len(turn[r].steps) : turn[r].steps[k] = step

ToolSteps(n) == [i \in 1..n |-> "tool"]
\* The last two committed rows are the user and the assistant message of
\* slot r's turn, the model called between them.
RowsOfTurn(r) ==
    LET n == Len(messages)
    IN /\ n >= 2
       /\ messages[n - 1].role = "user" /\ messages[n - 1].content = turn[r].message
       /\ messages[n].role = "assistant" /\ messages[n].content = turn[r].agent_message
       /\ messages[n - 1].conversation_id = turn[r].conversation_id
       /\ messages[n].conversation_id = turn[r].conversation_id
       /\ messages[n - 1].created_at + 1 < messages[n].created_at

Committed(c) ==
    LET In(m) == m.conversation_id = c
    IN SelectSeq(messages, In)
\* No turn is in service.
Quiet == \A r \in Slots : ~InService(r)
\* The history of conversation c as its owner gets it.
Reconstructed(c) ==
    get_conversation_history(conversations, messages, conversations[c].user_id, c)

ToolErrors == ValidationErrors \cup {ErrNotFound}

\* C10 (as stated): no turn in which a tool raised a validation or ownership
\* error ends with a server error.
C10_Claim ==
    \A r \in Slots : Ended(r, 500) => turn[r].response.cause \notin ToolErrors

\* No assistant message of slot r's turn is stored: the last row of the
\* Message Store is the turn's user message.
OnlyUserRow(r) ==
    LET n == Len(messages)
    IN /\ n >= 1
       /\ messages[n].role = "user"
       /\ messages[n].content = turn[r].message
       /\ messages[n].conversation_id = turn[r].conversation_id

TaskOf(rec) ==
    IF rec.tool = "add_task" THEN rec.result.task_id ELSE Get(rec.arguments.task_id)
\* A call logged after the j-th of `log` is on the same task.
TouchedLater(log, j) ==
    /\ log[j].tool # "list_tasks"
    /\ \E i \in (j + 1)..Len(log) :
          log[i].tool # "list_tasks" /\ UUID(TaskOf(log[i])) = UUID(TaskOf(log[j]))
\* What the logged call committed is in the Task Store.
EffectIn(rec) ==
    LET id == UUID(TaskOf(rec))
    IN CASE rec.tool = "add_task" ->
                id \in DOMAIN todos /\ todos[id].title = rec.result.title
                    /\ todos[id].created_at = rec.result.created_at
         [] rec.tool = "complete_task" -> id \in DOMAIN todos /\ todos[id].completed
         [] rec.tool = "delete_task" -> id \notin DOMAIN todos
         [] rec.tool = "update_task" ->
                id \in DOMAIN todos /\ todos[id].updated_at = rec.result.updated_at
         [] OTHER -> TRUE

KeptBetween(log, j, i) ==
    \A m \in (j + 1)..(i - 1) :
        ~(log[m].tool = "delete_task" /\ UUID(TaskOf(log[m])) = UUID(TaskOf(log[j])))

\* C13: the tool log of a turn is, record by record, the calls of the reply
\* in the order of the reply, each with the arguments it was executed with
\* and its result: as many records as passes of the loop done, all of them
\* in the response of a completed turn; and a call sees what an earlier call
\* of the turn committed: completing a task the turn added returns it
\* completed with the added title, and listing returns the added task.
C13_ToolOrder ==
    \A r \in Slots :
        LET log == turn[r].tool_calls_made
            calls == turn[r].calls
        IN /\ Len(log) <= Len(calls)
           /\ turn[r].pc = "tools" => Len(log) = turn[r].k - 1
           /\ \A j \in 1..Len(log) :
                 /\ DOMAIN log[j] = {"tool", "arguments", "result"}
                 /\ log[j].tool = calls[j].name
                 /\ log[j].arguments = InjectUser(calls[j].args, turn[r].user_id)
           /\ Ended(r, 200) =>
                 Len(log) = Len(calls) /\ turn[r].response.tool_calls = log
           /\ \A j \in 1..Len(log) : \A i \in (j + 1)..Len(log) :
                 (/\ log[j].tool = "add_task"
                  /\ log[i].arguments.user_id = log[j].arguments.user_id
                  /\ KeptBetween(log, j, i)) =>
                     /\ (log[i].tool = "complete_task"
                            /\ UUID(TaskOf(log[i])) = UUID(TaskOf(log[j]))) =>
                           /\ log[i].result.completed
                           /\ log[i].result.title = log[j].result.title
                           /\ log[i].result.task_id = log[j].result.task_id
                     /\ log[i].tool = "list_tasks" =>
                           \E n \in 1..Len(log[i].result.tasks) :
                               log[i].result.tasks[n].task_id = log[j].result.task_id

\* C13's case: a turn whose reply asked to add a task and then to complete
\* it has ended with both calls in its response, in that order.
C13_Witness ==
    /\ Ended(1, 200)
    /\ Len(turn[1].response.tool_calls) = 2
    /\ turn[1].response.tool_calls[1].tool = "add_task"
    /\ turn[1].response.tool_calls[2].tool = "complete_task"
    /\ turn[1].response.tool_calls[2].result.task_id
            = turn[1].response.tool_calls[1].result.task_id

(***************************************************************************)
(* Further properties of the task tools, checked under ToolSpec.           *)
(***************************************************************************)
\* The owner identity strings that name the owner of `row`.
OwnerStrings(row) == {u \in ToolUsers : IsUUID(u) /\ UUID(u) = row.user_id}
\* The snapshots of task `id` in the result of list_tasks(u, f).
Snapshots(u, f, id) ==
    LET tasks == list_tasks(todos, u, f).out.tasks
    IN {k \in 1..Len(tasks) : tasks[k].task_id = StrOf(id)}
\* list_tasks(u, f) has task `id` exactly once, as `completed` and `priority`.
ListedOnce(u, f, id, completed, priority) ==
    LET tasks == list_tasks(todos, u, f).out.tasks
    IN /\ list_tasks(todos, u, f).err = ""
       /\ Cardinality(Snapshots(u, f, id)) = 1
       /\ \A k \in Snapshots(u, f, id) :
             tasks[k].completed = completed /\ tasks[k].priority = priority

\* C14 (as stated): every task that is in the store and not completed is
\* once in its owner's pending and all lists, not completed and with
\* priority "medium".
C14_Claim ==
    \A row \in Rows : \A u \in OwnerStrings(row) : \A f \in {"pending", "all"} :
        ~row.completed => ListedOnce(u, f, row.id, FALSE, "medium")

\* C14 (amended): add_task returns the task not completed and with
\* priority "medium", and the owner's pending and all lists then have it
\* exactly once so; every task of the store is exactly once in its owner's
\* all list, and in the pending list exactly once while not completed, with
\* the completion and priority of its row; and a row leaves the store only
\* by delete_task, becomes completed only by complete_task, and changes
\* priority only by an update_task that supplies one.
C14_AddThenList ==
    /\ []((last.op = "add_task" /\ last.err = "") =>
            /\ last.out.completed = FALSE
            /\ last.out.priority = "medium"
            /\ last.out.title = Strip(Get(last.title))
            /\ \A f \in {"pending", "all"} :
                  ListedOnce(last.user_id, f, UUID(last.out.task_id), FALSE, "medium"))
    /\ [](\A row \in Rows : \A u \in OwnerStrings(row) :
            /\ ListedOnce(u, "all", row.id, row.completed, row.priority)
            /\ ~row.completed => ListedOnce(u, "pending", row.id, FALSE, row.priority)
            /\ row.completed => Snapshots(u, "pending", row.id) = {})
    /\ [][\A i \in DOMAIN todos :
            /\ i \notin DOMAIN todos' => (last'.op = "delete_task" /\ last'.err = "")
            /\ i \in DOMAIN todos' =>
                  /\ todos'[i].completed # todos[i].completed =>
                        (last'.op = "complete_task" /\ todos'[i].completed)
                  /\ todos'[i].priority # todos[i].priority =>
                        (last'.op = "update_task" /\ ~IsNone(last'.priority))]_vars

\* C14's case: the owner with the second spelling of its identity has added
\* a second task.
C14_Witness ==
    /\ last.op = "add_task"
    /\ last.err = ""
    /\ last.user_id = Alt(1)
    /\ Cardinality(DOMAIN todos) = 2

\* C15 (as stated): complete_task by the owner of a task that is already
\* completed returns without error and leaves the task completed, with the
\* title, description and priority it had.
C15_Claim ==
    \A row \in Rows : \A u \in OwnerStrings(row) : \A i \in Spellings(row.id) :
        row.completed =>
            LET r == complete_task(todos, now, u, i)
            IN /\ r.err = ""
               /\ r.todos[row.id].completed
               /\ r.todos[row.id].title = row.title
               /\ r.todos[row.id].description = row.description
               /\ r.todos[row.id].priority = row.priority

\* C16: update_task without title, description and priority raises the
\* no-field validation error and leaves the store as it was, for every
\* owner string and every task id string: of an own task, of another
\* owner's, of no task, and one that is no UUID.
C16_UpdateNoFields ==
    /\ last = NoCall =>
          \A u \in ToolUsers : \A i \in TaskIds :
              LET r == update_task(todos, now, u, i, None, None, None)
              IN r.err = ErrNoFields /\ r.err \in ValidationErrors /\ r.todos = todos
    /\ (last.op = "update_task" /\ IsNone(last.title) /\ IsNone(last.description)
            /\ IsNone(last.priority)) => last.err = ErrNoFields

\* C16's case: the owner of a task has called update_task on it without any
\* field.
C16_Witness ==
    /\ LastOn("update_task")
    /\ IsNone(last.title) /\ IsNone(last.description) /\ IsNone(last.priority)
    /\ StrOf(todos[UUID(Get(last.task_id))].user_id) = last.user_id
    /\ last.err = ErrNoFields

\* C17: an update_task that returns leaves the store with the same rows,
\* every other row as it was, and the updated row with its id, owner,
\* completion and created_at as they were, updated_at the time of the call,
\* each field that was not supplied as it was, and each supplied field as
\* supplied (stripped; an empty description cleared).
C17_UpdateFrame ==
    \A row \in Rows : \A u \in ToolUsers : \A i \in Spellings(row.id) : \A a \in UpdateArgs :
        LET r == update_task(todos, now, u, i, a[1], a[2], a[3])
            new == r.todos[row.id]
        IN r.err = "" =>
              /\ DOMAIN r.todos = DOMAIN todos
              /\ \A j \in DOMAIN todos \ {row.id} : r.todos[j] = todos[j]
              /\ new.id = row.id /\ new.user_id = row.user_id
              /\ new.completed = row.completed /\ new.created_at = row.created_at
              /\ new.updated_at = now
              /\ new.title = IF IsNone(a[1]) THEN row.title ELSE Strip(Get(a[1]))
              /\ new.description =
                    IF IsNone(a[2]) THEN row.description
                    ELSE IF Truthy(Get(a[2])) THEN Some(Strip(Get(a[2]))) ELSE None
              /\ new.priority = IF IsNone(a[3]) THEN row.priority ELSE Get(a[3])
              /\ r.out.title = new.title /\ r.out.description = new.description
              /\ r.out.priority = new.priority /\ r.out.completed = new.completed

\* C17's case: update_task with a priority only has returned on a completed
\* task, which is still completed and has the new priority.
C17_Witness ==
    /\ LastOn("update_task")
    /\ last.err = ""
    /\ IsNone(last.title) /\ IsNone(last.description) /\ last.priority = Some("high")
    /\ todos[UUID(Get(last.task_id))].completed
    /\ todos[UUID(Get(last.task_id))].priority = "high"

\* The rows of the store that owner string u owns and filter f selects.
Matching(u, f) ==
    {row \in Rows : /\ IsUUID(u) /\ UUID(u) = row.user_id
                    /\ (f = "pending" => ~row.completed)
                    /\ (f = "completed" => row.completed)}

\* C18 (as stated): list_tasks returns without error for every owner
\* identity string and every filter, with one snapshot for each of the
\* owner's rows the filter selects and no other, newest created first, the
\* number of snapshots as total and the filter as status_filter.
C18_Claim ==
    last = NoCall =>
        \A u \in ToolUsers : \A f \in StatusFilters :
            LET r == list_tasks(todos, u, f)
            IN /\ r.err = ""
               /\ r.out.total = Len(r.out.tasks)
               /\ r.out.total = Cardinality(Matching(u, f))
               /\ r.out.status_filter = f
               /\ \A row \in Matching(u, f) :
                     \E k \in 1..Len(r.out.tasks) : r.out.tasks[k] = ListSnapshot(row)
               /\ \A k \in 1..(Len(r.out.tasks) - 1) :
                     r.out.tasks[k].created_at >= r.out.tasks[k + 1].created_at

\* The ids of the tasks that were added and are no longer in the store.
Gone == IF last = NoCall THEN (1..nextTodo) \ DOMAIN todos ELSE {}
\* complete_task, delete_task and update_task with some field, by owner
\* string u on task id string i, all raise the not-found-or-forbidden error.
AllNotFound(u, i) ==
    /\ complete_task(todos, now, u, i).err = ErrNotFound
    /\ delete_task(todos, u, i).err = ErrNotFound
    /\ \A a \in UpdateArgs \ {<<None, None, None>>} :
          update_task(todos, now, u, i, a[1], a[2], a[3]).err = ErrNotFound
\* No list result of owner string u has task `id`.
Unlisted(u, id) ==
    \A f \in StatusFilters :
        LET r == list_tasks(todos, u, f)
        IN r.err = "" => \A k \in 1..Len(r.out.tasks) : r.out.tasks[k].task_id # StrOf(id)

\* C19 (as stated): on a task that was deleted, every later complete_task,
\* delete_task and update_task raises the not-found-or-forbidden error.
C19_Claim ==
    \A id \in Gone : \A u \in ToolUsers : \A i \in Spellings(id) :
        /\ AllNotFound(u, i)
        /\ update_task(todos, now, u, i, None, None, None).err = ErrNotFound

\* C19 (amended): a delete_task that returns gives {task_id, deleted: true}
\* with the task id as passed and the row is gone; a task that is gone is in
\* no list result, and complete_task, delete_task and update_task with some
\* field on its id raise the not-found-or-forbidden error, update_task
\* without a field the no-field validation error; a gone task stays gone,
\* and a row leaves the store only in a delete_task that returns, on that row.
C19_DeletedStaysGone ==
    /\ []((last.op = "delete_task" /\ last.err = "") =>
            /\ last.out = [task_id |-> Get(last.task_id), deleted |-> TRUE]
            /\ UUID(Get(last.task_id)) \notin DOMAIN todos
            /\ UUID(Get(last.task_id)) \in 1..nextTodo)
    /\ [](\A id \in Gone : \A u \in ToolUsers :
            /\ Unlisted(u, id)
            /\ \A i \in Spellings(id) :
                  /\ AllNotFound(u, i)
                  /\ update_task(todos, now, u, i, None, None, None).err = ErrNoFields)
    /\ [][/\ \A id \in (1..nextTodo) \ DOMAIN todos : id \notin DOMAIN todos'
          /\ \A id \in DOMAIN todos :
                id \notin DOMAIN todos' =>
                    /\ last'.op = "delete_task" /\ last'.err = ""
                    /\ UUID(Get(last'.task_id)) = id
                    /\ StrOf(todos[id].user_id) = last'.user_id]_vars

\* C19's case: after a task was deleted, another was added, and the owner
\* has called complete_task on the deleted one.
C19_Witness ==
    /\ last.op = "complete_task"
    /\ last.err = ErrNotFound
    /\ UUID(Get(last.task_id)) \in (1..nextTodo) \ DOMAIN todos
    /\ \E i \in DOMAIN todos : StrOf(todos[i].user_id) = last.user_id

\* C35: every row of the Task Store has a title of 1 to 500 characters with
\* no whitespace at either end, a description that is absent or has at most
\* 5000 characters, and a priority that is low, medium or high.
C35_RowsValid ==
    \A i \in DOMAIN todos :
       /\ Len_(todos[i].title) \in 1..MaxTitleLen
       /\ todos[i].title.lead = 0
       /\ todos[i].title.trail = 0
       /\ IsNone(todos[i].description)
            \/ Len_(Get(todos[i].description)) <= MaxDescriptionLen
       /\ todos[i].priority \in {"low", "medium", "high"}

\* C35's case: a task added with whitespace around its title has been given
\* the priority high and then a description that came with whitespace at
\* its end.
C35_Witness ==
    /\ last.op = "update_task"
    /\ last.err = ""
    /\ last.description = Some(Note)
    /\ \E i \in DOMAIN todos :
          /\ todos[i].title = Strip(Milk)
          /\ todos[i].priority = "high"
          /\ todos[i].description = Some(Strip(Note))

\* C36: an add_task call with a title that is empty, all whitespace or
\* longer than 500 characters, or with a description longer than 5000,
\* raises a validation error and leaves the Task Store as it was: no row is
\* added, no id is used, and list_tasks gives every user the same result for
\* every status as before the call.
C36_AddValidatesFirst ==
    [][(last'.op = "add_task" /\ last' # last
          /\ (InvalidTitle(last'.title) \/ InvalidDescription(last'.description))) =>
         /\ last'.err \in {ErrEmptyTitle, ErrTitleLong, ErrDescriptionLong}
         /\ todos' = todos
         /\ nextTodo' = nextTodo
         /\ \A u \in ToolUsers, f \in StatusFilters :
               list_tasks(todos', u, f) = list_tasks(todos, u, f)]_vars

\* C36's case: with a task in the store, an add_task call with a
\* description of 5001 characters has been refused.
C36_Witness ==
    /\ last.op = "add_task"
    /\ last.description = Some(Description5001)
    /\ last.err = ErrDescriptionLong
    /\ DOMAIN todos # {}

\* C39: a complete_task call that returns leaves the set of rows as it was
\* and every other row unchanged, and changes of the task's row only
\* completed, which is true afterwards, and updated_at, which is the time
\* of the call: the id, owner, title, description, priority and created_at
\* are those of before; the result tells the row's title and new values.
C39_CompleteFrame ==
    [][(last'.op = "complete_task" /\ last' # last /\ last'.err = "") =>
         LET id == UUID(Get(last'.task_id))
         IN /\ id \in DOMAIN todos
            /\ DOMAIN todos' = DOMAIN todos
            /\ \A i \in DOMAIN todos \ {id} : todos'[i] = todos[i]
            /\ todos'[id].id = todos[id].id
            /\ todos'[id].user_id = todos[id].user_id
            /\ todos'[id].title = todos[id].title
            /\ todos'[id].description = todos[id].description
            /\ todos'[id].priority = todos[id].priority
            /\ todos'[id].created_at = todos[id].created_at
            /\ todos'[id].completed
            /\ todos'[id].updated_at = now
            /\ todos'[id].updated_at >= todos[id].updated_at
            /\ last'.out.title = todos[id].title
            /\ last'.out.completed]_vars

\* C39's case: a task has been completed by its owner while the store
\* holds a second task, of another owner, which is still pending.
C39_Witness ==
    /\ last.op = "complete_task"
    /\ last.err = ""
    /\ Cardinality(DOMAIN todos) = 2
    /\ \E i \in DOMAIN todos, j \in DOMAIN todos :
          /\ i = UUID(Get(last.task_id))
          /\ todos[i].completed
          /\ todos[i].updated_at > todos[i].created_at
          /\ ~todos[j].completed
          /\ todos[j].user_id # todos[i].user_id

(***************************************************************************)
(* Further properties of the chat endpoint, checked under Spec.            *)
(***************************************************************************)
\* C20 (as stated): once the model has replied, the reply text of the turn
\* is the model's text where it supplied one, and is the generic
\* acknowledgment in place of it only where the model supplied no text
\* together with tool calls; a completed turn returns the reply text, which
\* is the content of the assistant message it stored.
C20_Claim ==
    \A r \in Slots :
        Did(r, "model") =>
            /\ ~IsNone(turn[r].content) => turn[r].agent_message = Get(turn[r].content)
            /\ IsNone(turn[r].content) =>
                  (turn[r].agent_message = ActionCompleted => turn[r].calls # <<>>)
            /\ Ended(r, 200) =>
                  /\ turn[r].response.message = turn[r].agent_message
                  /\ messages[Len(messages)].role = "assistant"
                  /\ messages[Len(messages)].content = turn[r].response.message

\* The number of model steps among the steps of slot r's turn.
ModelSteps(r) == Cardinality({k \in 1..Len(turn[r].steps) : turn[r].steps[k] = "model"})

\* C21: a turn has at most one model step; a request comes to its model
\* call only from the commit of its user message, and a step of the turn at
\* its model call always leaves it: to the end of the turn with a server
\* error, or to the tool loop or the assistant message, from where no step
\* returns to it; each pass of the tool loop moves to the next call of the
\* reply or ends the turn, so no call is executed twice.
C21_OneModelCall ==
    /\ [](\A r \in Slots :
            /\ ModelSteps(r) <= 1
            /\ turn[r].pc = "run" => ModelSteps(r) = 0
            /\ Len(turn[r].tool_calls_made) <= Len(turn[r].calls))
    /\ [][\A r \in Slots :
            /\ (turn'[r].pc = "run" /\ turn[r].pc # "run") => turn[r].pc = "commit_user"
            /\ (turn[r].pc = "run" /\ turn'[r].pc = "run") =>
                  (now' = now \/ \E q \in Slots \ {r} : turn'[q] # turn[q])
            /\ (turn[r].pc = "run" /\ turn'[r].pc # "run") =>
                  \/ turn'[r].pc = "done" /\ turn'[r].response.status = 500
                  \/ turn'[r].pc \in {"tools", "save_assistant"} /\ ModelSteps(r)' = 1
            /\ (turn[r].pc = "tools" /\ turn'[r] # turn[r]) =>
                  \/ turn'[r].pc = "done" /\ turn'[r].response.status = 500
                  \/ /\ turn'[r].k = turn[r].k + 1
                     /\ Len(turn'[r].tool_calls_made) = Len(turn[r].tool_calls_made) + 1
                     /\ turn'[r].calls = turn[r].calls]_vars

\* C21's case: the model call of a turn has failed and the turn has ended
\* with a server error, no model step done.
C21_Witness ==
    /\ Ended(1, 500)
    /\ turn[1].response.cause = ErrModel
    /\ ModelSteps(1) = 0
    /\ turn[1].tool_calls_made = <<>>

\* The chat turns of Spec with arguments payloads that are expressions.
EvalSpec == Init /\ [][Next \/ \E r \in {1} : EvalRuns(r)]_vars

\* C22: the Task Store changes only in a pass of the tool loop that
\* executes one of the tools that write (add, complete, delete, update) and
\* logs the call; no other step of a turn, and no call under another name,
\* changes it.
C22_Claim ==
    [][todos' # todos =>
         \E r \in Slots :
            /\ turn[r].pc = "tools"
            /\ NextCall(r).parses
            /\ NextCall(r).name \in MutatingTools
            /\ Len(turn'[r].tool_calls_made) = Len(turn[r].tool_calls_made) + 1]_vars

\* The number of steps `step` among the steps of slot r's turn.
StepCount(r, step) ==
    Cardinality({k \in 1..Len(turn[r].steps) : turn[r].steps[k] = step})

\* C25: the context step of a turn without conversation id adds exactly one
\* conversation, owned by the caller, makes it the turn's conversation and
\* leaves the history empty, and no other step adds a conversation; the
\* model of such a turn runs with empty history and its response carries
\* the new conversation's id; the Message Store changes only by a turn's
\* commit of its user message or of its reply, which appends that one row
\* to the turn's conversation; and a turn that has succeeded has done each
\* of the two commits once, its two rows being the last two of the store,
\* the user's text first.
C25_NewConversationTurn ==
    /\ [](\A r \in Slots :
            /\ (IsNone(turn[r].requested) /\ turn[r].pc \in {"run", "tools"}) =>
                  turn[r].history = <<>>
            /\ Ended(r, 200) =>
                  /\ StepCount(r, "user_message") = 1
                  /\ StepCount(r, "assistant_message") = 1
                  /\ RowsOfTurn(r)
                  /\ turn[r].response.conversation_id = turn[r].conversation_id
                  /\ IsNone(turn[r].requested) =>
                        /\ turn[r].history = <<>>
                        /\ turn[r].conversation_id \in DOMAIN conversations
                        /\ conversations[turn[r].conversation_id].user_id = turn[r].user_id
                        /\ MessageCount(messages, turn[r].conversation_id) = 2)
    /\ [][/\ \A r \in Slots :
              (turn[r].pc = "context" /\ turn'[r].pc # "context"
                 /\ IsNone(turn[r].requested)) =>
                 LET c == turn'[r].conversation_id
                 IN /\ c \notin DOMAIN conversations
                    /\ DOMAIN conversations' = DOMAIN conversations \cup {c}
                    /\ \A i \in DOMAIN conversations : conversations'[i] = conversations[i]
                    /\ conversations'[c].user_id = turn[r].user_id
                    /\ turn'[r].history = <<>>
                    /\ turn'[r].pc = "save_user"
          /\ DOMAIN conversations' # DOMAIN conversations =>
                 \E r \in Slots : turn[r].pc = "context"
          /\ messages' # messages =>
                 \E r \in Slots :
                    LET row == messages'[Len(messages')]
                    IN /\ Len(messages') = Len(messages) + 1
                       /\ SubSeq(messages', 1, Len(messages)) = messages
                       /\ row.conversation_id = turn[r].conversation_id
                       /\ row.user_id = turn[r].user_id
                       /\ \/ /\ turn[r].pc = "commit_user"
                             /\ row.role = "user" /\ row.content = turn[r].message
                             /\ turn'[r].steps = Append(turn[r].steps, "user_message")
                          \/ /\ turn[r].pc = "commit_assistant"
                             /\ row.role = "assistant"
                             /\ row.content = turn[r].agent_message
                             /\ turn'[r].steps = Append(turn[r].steps, "assistant_message")]_vars

\* C25's case: a second turn without conversation id has succeeded; it has
\* its own new conversation, and the first conversation still has the two
\* messages of the first turn.
C25_Witness ==
    /\ Ended(1, 200)
    /\ IsNone(turn[1].requested)
    /\ turn[1].conversation_id = 2
    /\ MessageCount(messages, 1) = 2
    /\ MessageCount(messages, 2) = 2

\* C26 (as stated): a turn that was given a conversation id, whatever the
\* integer, and has passed its context step either runs in the conversation
\* of that id, no conversation having been created for it, or has ended
\* with NotFound or Unauthorized and has persisted nothing.
C26_Claim ==
    \A r \in Slots :
       (~IsNone(turn[r].requested) /\ turn[r].pc \notin {"idle", "context"}) =>
          \/ /\ turn[r].conversation_id = Get(turn[r].requested)
             /\ Did(r, "context")
          \/ /\ Ended(r, 404) \/ Ended(r, 401)
             /\ turn[r].steps = <<>>

\* The same for the ids other than 0.
C26_NonZeroIds ==
    \A r \in Slots :
       (Continues(r) /\ turn[r].pc \notin {"idle", "context"}) =>
          \/ /\ turn[r].conversation_id = Get(turn[r].requested)
             /\ conversations[turn[r].conversation_id].user_id = turn[r].user_id
             /\ Did(r, "context")
          \/ /\ Ended(r, 404) \/ Ended(r, 401)
             /\ turn[r].steps = <<>>

\* Row i of the Message Store was persisted by the turn of slot r: it is the
\* turn's user message or, the turn having succeeded, its reply.
PersistedBy(r, i) ==
    /\ messages[i].conversation_id = turn[r].conversation_id
    /\ \/ messages[i].role = "user" /\ messages[i].content = turn[r].message
       \/ Ended(r, 200) /\ i = Len(messages)

\* C27 (as stated): once a turn has ended, the updated_at of its
\* conversation is not older than the created_at of any message the turn
\* has persisted.
C27_Claim ==
    \A r \in Slots :
       turn[r].pc = "done" =>
          \A i \in 1..Len(messages) :
             PersistedBy(r, i) =>
                messages[i].created_at <= conversations[turn[r].conversation_id].updated_at

\* The same for the turns that have succeeded, and: no step removes a
\* conversation.
C27_SuccessfulTurns ==
    /\ [](\A r \in Slots :
            Ended(r, 200) =>
               \A i \in 1..Len(messages) :
                  PersistedBy(r, i) =>
                     messages[i].created_at
                       <= conversations[turn[r].conversation_id].updated_at)
    /\ [][DOMAIN conversations \subseteq DOMAIN conversations']_vars

\* C30 (as stated): a turn that has failed on an error that is no validation,
\* ownership or not-found error of a tool has a server error for its
\* response whose detail is one generic text, the same for every such error.
C30_Claim ==
    \A r \in Slots :
       (Ended(r, 500) /\ turn[r].response.cause \notin ToolErrors) =>
          turn[r].response.detail = "Internal server error"

\* Every failure of a turn after its context step is a server error, and
\* the detail of the response carries the text of the error.
C30_DetailOfError ==
    \A r \in Slots :
       Ended(r, 500) =>
          turn[r].response.detail = "Internal server error: " \o turn[r].response.cause

\* The locals of a handler that has just taken a request: nothing but the
\* request's values.
Fresh(user_id, authenticated_user_id, message, requested) ==
    IF user_id # authenticated_user_id
    THEN [Idle EXCEPT !.pc = "done", !.user_id = user_id,
                      !.authenticated_user_id = authenticated_user_id,
                      !.response = [status |-> 403, detail |-> "Forbidden: user_id mismatch"]]
    ELSE [Idle EXCEPT !.pc = "context", !.user_id = user_id,
                      !.authenticated_user_id = authenticated_user_id,
                      !.message = message, !.requested = requested]

Occurrences(list, message) ==
    Cardinality({k \in 1..Len(list) : list[k] = [role |-> "user", content |-> message]})

\* C34: a turn whose model call has been made has sent the system
\* instruction, then its history, then its user message, which is in the
\* list once; and the history is made of the rows its conversation had
\* before the turn's own user message.
C34_ComposedList ==
    \A r \in Slots :
       (Did(r, "model") \/ (Ended(r, 500) /\ turn[r].response.cause = ErrModel)) =>
          LET list == turn[r].sent
              rows == MessagesOf(messages, turn[r].conversation_id)
              mine == CHOOSE k \in 1..Len(rows) :
                         rows[k].role = "user" /\ rows[k].content = turn[r].message
          IN /\ Len(list) = Len(turn[r].history) + 2
             /\ list[1] = [role |-> "system", content |-> Instructions]
             /\ SubSeq(list, 2, Len(list) - 1) = turn[r].history
             /\ list[Len(list)] = [role |-> "user", content |-> turn[r].message]
             /\ Occurrences(list, turn[r].message) = 1
             /\ UserRowOf(r)
             /\ turn[r].history = Formatted(SubSeq(rows, 1, mine - 1))

\* C34's case: the model call of a turn in a conversation that had two
\* messages has been made with four messages.
C34_Witness ==
    /\ Did(1, "model")
    /\ Continues(1)
    /\ Len(turn[1].sent) = 4
    /\ turn[1].sent[2].role = "user"
    /\ turn[1].sent[3].role = "assistant"

(***************************************************************************)
(* Claims about concurrent chat requests and the conversation endpoints,   *)
(* checked under ApiSpec.                                                  *)
(***************************************************************************)
\* C23: every row of the Message Store, and every row a turn has built and
\* not yet committed, refers to a conversation that exists and has the
\* row's owner for its owner.
C23_MessageOwner ==
    /\ \A i \in 1..Len(messages) :
          /\ messages[i].conversation_id \in DOMAIN conversations
          /\ conversations[messages[i].conversation_id].user_id = messages[i].user_id
    /\ \A r \in Slots :
          ~IsNone(turn[r].pending) =>
             /\ Get(turn[r].pending).conversation_id \in DOMAIN conversations
             /\ conversations[Get(turn[r].pending).conversation_id].user_id
                   = Get(turn[r].pending).user_id

\* C23's case: two turns of different owners have run interleaved, each in
\* the conversation it created, and each has committed its two messages.
C23_Witness ==
    /\ Len(messages) = 4
    /\ messages[1].user_id # messages[2].user_id
    /\ messages[1].conversation_id # messages[2].conversation_id
    /\ \A r \in Slots : Ended(r, 200)

Roles == {"user", "assistant"}
\* The rows of sequence `rows` come with created_at never decreasing.
InCreationOrder(rows) ==
    \A k \in 1..(Len(rows) - 1) : rows[k].created_at <= rows[k + 1].created_at

\* C24: no step changes or removes a row of the Message Store; every row
\* has role "user" or "assistant"; the history reconstructed for the owner of
\* a conversation has one entry per row of the conversation, in the order
\* of the rows' created_at, with the row's role and content; and the detail
\* endpoint returns the rows in that order too.
C24_MessagesImmutable ==
    /\ [](/\ \A i \in 1..Len(messages) : messages[i].role \in Roles
          /\ \A c \in DOMAIN conversations :
                LET h == Reconstructed(c)
                    rows == MessagesOf(messages, c)
                IN /\ h.status = 200
                   /\ Len(h.history) = MessageCount(messages, c)
                   /\ Len(rows) = Len(h.history)
                   /\ {rows[k] : k \in 1..Len(rows)}
                        = {messages[i] : i \in {j \in 1..Len(messages) :
                                                   messages[j].conversation_id = c}}
                   /\ InCreationOrder(rows)
                   /\ \A k \in 1..Len(rows) :
                         /\ h.history[k].role = rows[k].role
                         /\ h.history[k].content = rows[k].content
                         /\ h.history[k].role \in Roles
          /\ (last.op = "get_conversation" /\ last.response.status = 200) =>
                /\ InCreationOrder([k \in 1..Len(last.response.messages) |->
                                       [created_at |->
                                          last.response.messages[k].created_at.iso]])
                /\ \A k \in 1..Len(last.response.messages) :
                      last.response.messages[k].role \in Roles)
    /\ [][/\ Len(messages') >= Len(messages)
          /\ \A i \in 1..Len(messages) : messages'[i] = messages[i]]_vars

\* C24's case: two turns have run in one conversation, and the detail
\* endpoint returns its four messages.
C24_Witness ==
    /\ last.op = "get_conversation"
    /\ last.response.status = 200
    /\ Len(last.response.messages) = 4
    /\ \E k \in 1..4 : last.response.messages[k].role = "assistant"

EndpointOps == {"list_conversations", "create_conversation", "get_conversation"}

\* C28: a chat request is refused with 403 exactly when its path user
\* differs from the token's user, and a refused one has done no step: no
\* context, no conversation, no message, no model call; a request to the
\* listing, creation or detail endpoint is refused with 403 exactly when the
\* two differ, before the context service is called, and its response has
\* nothing but the status and the refusal text; and the step that refuses
\* a request leaves both stores and the clock as they were.
C28_MismatchRejected ==
    /\ [](/\ \A r \in Slots :
                turn[r].pc # "idle" =>
                   /\ turn[r].user_id # turn[r].authenticated_user_id <=> Ended(r, 403)
                   /\ Ended(r, 403) =>
                         /\ turn[r].response = Refused
                         /\ turn[r].steps = <<>>
                         /\ turn[r].conversation_id = 0
                         /\ turn[r].history = <<>>
                         /\ IsNone(turn[r].pending)
                         /\ turn[r].tool_calls_made = <<>>
          /\ last.op \in EndpointOps =>
                /\ last.user_id # last.authenticated_user_id
                      <=> last.response.status = 403
                /\ last.response.status = 403 =>
                      /\ last.response = Refused
                      /\ ~last.reached)
    /\ [][(\/ \E r \in Slots : turn'[r] # turn[r] /\ turn'[r].response.status = 403
           \/ last' # last /\ last'.op \in EndpointOps /\ last'.response.status = 403) =>
             UNCHANGED <<todos, nextTodo, now, conversations, messages, tally>>]_vars

\* C28's case: a listing request for the first user under the token of the
\* second has been refused while the first user has a conversation, and a
\* chat request with differing users has been refused too.
C28_Witness ==
    /\ last.op = "list_conversations"
    /\ last.response.status = 403
    /\ \E c \in DOMAIN conversations : conversations[c].user_id = last.user_id
    /\ \E r \in Slots : Ended(r, 403)

\* The limits and offsets the listing endpoint passes on.
ClampedLimits == {1, 20, 100}
ClampedOffsets == {0, 1}
\* The number of conversations of owner u.
Owned(u) == Cardinality({c \in DOMAIN conversations : conversations[c].user_id = u})

\* C29: at every moment, for a conversation and a user who is not its
\* owner, no page of the user's listing contains the conversation and the
\* listing's total counts the user's own conversations only, and the detail
\* of the conversation asked by the user is refused with 401, without
\* messages; the listing endpoint returns conversations of the caller
\* alone, and the detail endpoint returns no messages of a conversation
\* that the caller does not own.
C29_ConversationIsolation ==
    /\ \A a \in DOMAIN conversations, B \in ChatUsers :
          conversations[a].user_id # B =>
             /\ \A limit \in ClampedLimits, offset \in ClampedOffsets :
                   LET res == list_user_conversations(conversations, messages, B,
                                                      limit, offset)
                   IN /\ \A k \in 1..Len(res.conversations) :
                            /\ res.conversations[k].id # a
                            /\ res.conversations[k].user_id = B
                      /\ res.total = Owned(B)
             /\ LET d == get_conversation_detail(conversations, messages, B, a)
                IN d.status = 401 /\ DOMAIN d = {"status", "detail"}
    /\ (last.op = "list_conversations" /\ last.response.status = 200) =>
          /\ \A k \in 1..Len(last.response.conversations) :
                /\ last.response.conversations[k].user_id = last.authenticated_user_id
                /\ conversations[last.response.conversations[k].id].user_id
                      = last.authenticated_user_id
          /\ last.response.total = Owned(last.authenticated_user_id)
    /\ (last.op = "get_conversation" /\ last.params \in DOMAIN conversations
          /\ conversations[last.params].user_id # last.authenticated_user_id) =>
          /\ last.response.status \in {401, 403}
          /\ DOMAIN last.response = {"status", "detail"}

\* C29's case: the second user, under their own token, has asked for the
\* detail of a conversation of the first user that has messages, and has
\* a conversation of their own.
C29_Witness ==
    /\ last.op = "get_conversation"
    /\ last.user_id = last.authenticated_user_id
    /\ last.params \in DOMAIN conversations
    /\ conversations[last.params].user_id # last.user_id
    /\ MessageCount(messages, last.params) >= 2
    /\ Owned(last.user_id) = 1
    /\ last.response.status = 401

Largest(x, y) == IF x > y THEN x ELSE y
Smallest(x, y) == IF x < y THEN x ELSE y
\* Limits and offsets on both sides of every bound of the clamping.
LimitInputs == {-2147483647, -1, 0, 1, 2, 20, 99, 100, 101, 2147483647}
OffsetInputs == {-2147483647, -1, 0, 1, 2, 2147483647}

RowsIn(msgs, c) == {msgs[i] : i \in {j \in 1..Len(msgs) : msgs[j].conversation_id = c}}

RowsWith(c, role, content) ==
    {i \in 1..Len(messages) : /\ messages[i].conversation_id = c
                              /\ messages[i].role = role
                              /\ messages[i].content = content}

\* C37: when the turns of both slots have succeeded in one conversation,
\* whatever the interleaving of their steps, the conversation has four
\* messages: the user message of each turn, once, and two replies, each
\* turn's user message committed before a reply; and its updated_at is the
\* time of one of the two refreshes, later than its creation.
C37_NoMessageLost ==
    (/\ \A r \in Slots : Ended(r, 200)
     /\ turn[1].conversation_id = turn[2].conversation_id) =>
       LET c == turn[1].conversation_id
       IN /\ MessageCount(messages, c) = 4
          /\ Cardinality(RowsIn(messages, c)) = 4
          /\ \A r \in Slots :
                /\ Cardinality(RowsWith(c, "user", turn[r].message)) = 1
                /\ \E i \in RowsWith(c, "user", turn[r].message),
                      j \in RowsWith(c, "assistant", turn[r].agent_message) : i < j
          /\ Cardinality({i \in 1..Len(messages) :
                             messages[i].conversation_id = c
                             /\ messages[i].role = "assistant"}) = 2
          /\ conversations[c].updated_at > conversations[c].created_at
          /\ tally[c] = [ok |-> 2, failed |-> 0]

\* C37's case: two turns have succeeded in one conversation, both user
\* messages committed before either reply.
C37_Witness ==
    /\ \A r \in Slots : Ended(r, 200)
    /\ turn[1].conversation_id = turn[2].conversation_id
    /\ messages[1].role = "user"
    /\ messages[2].role = "user"
    /\ messages[2].created_at <= messages[1].created_at

\* Sequence a is the beginning of sequence b.
Prefix(a, b) == Len(a) <= Len(b) /\ SubSeq(b, 1, Len(a)) = a

\* C38 (as stated): the history reconstructed for a conversation before a
\* step is the beginning of the history reconstructed for it after the step.
C38_Claim ==
    [][\A c \in DOMAIN conversations :
          Prefix(Formatted(MessagesOf(messages, c)), Formatted(MessagesOf(messages', c)))]_vars


=============================================================================
